---- MODULE Spec2Model ----
(***************************************************************************)
(* Demand forecasting core of drugtrack (src/ai_forecast): the             *)
(* DemandForecaster object of forecast_utils.py and the views of views.py  *)
(* that drive it.                                                          *)
(*                                                                         *)
(* Numbers.  A date is a day number.  A float is a fixed-point number: the *)
(* integer v stands for v / Scale.  The least-squares fit is solved in     *)
(* exact integer arithmetic and rounded to fixed point once, at the end.   *)
(***************************************************************************)
EXTENDS Integers, Sequences, FiniteSets, TLC

\* ------------------------------------------------------------------ bounds
\* Fixed-point resolution of a float.
Scale == 100
\* Longest generated history, in days (the source generates 366).
MaxDays == 4
\* Largest daily demand of a generated row.
MaxDemand == 1
\* Latest first day of a generated history.
MaxStart == 3
\* Largest horizon asked of forecast_demand directly.
MaxHorizon == 2
\* Days in a model year: small, so that a history of a few days can span a
\* new year the way the source's 366 days do.
YearLen == 5
\* Days in a model month (the last month of a year may be shorter).
MonthLen == 3
\* Largest top_n asked of get_top_drugs_by_demand (more than there are drugs).
MaxTopN == 3

\* ----------------------------------------------------------------- numbers
Abs(a) == IF a < 0 THEN -a ELSE a

Max(a, b) == IF a >= b THEN a ELSE b

Min(a, b) == IF a <= b THEN a ELSE b

RECURSIVE Gcd(_, _)
Gcd(a, b) == IF b = 0 THEN Abs(a) ELSE Gcd(b, a % Abs(b))

\* a / b rounded to the nearest integer, b > 0.
RDiv(a, b) == (2 * a + b) \div (2 * b)

\* a / b rounded to the nearest integer, a tie to the even one (round()).
RoundHalfEven(a, b) ==
  IF 2 * (a % b) < b THEN a \div b
  ELSE IF 2 * (a % b) > b THEN (a \div b) + 1
  ELSE IF (a \div b) % 2 = 0 THEN a \div b
  ELSE (a \div b) + 1

RECURSIVE SqrtBetween(_, _, _)
SqrtBetween(n, lo, hi) ==
  IF lo >= hi THEN lo
  ELSE LET mid == (lo + hi + 1) \div 2
       IN IF mid * mid <= n THEN SqrtBetween(n, mid, hi)
          ELSE SqrtBetween(n, lo, mid - 1)

\* floor of the square root of n >= 0.
ISqrt(n) == SqrtBetween(n, 0, Min(n, 46340))

\* A float that can be NaN (a score, a sample deviation, a percentage): the
\* fixed-point value v, or not a number.
Float(v) == [nan |-> FALSE, value |-> v]

NaN == [nan |-> TRUE, value |-> 0]

\* A sequence given by a function expression, evaluated once into a tuple.
Tuple(f) == f \o <<>>

RECURSIVE SumSeq(_)
SumSeq(s) == IF s = <<>> THEN 0 ELSE Head(s) + SumSeq(Tail(s))

\* The dot product of two integer sequences of one length.
Dot(a, b) == SumSeq(Tuple([i \in 1..Len(a) |-> a[i] * b[i]]))

\* ---------------------------------------------------------------- calendar
\* Day 0 is a Friday and the last day but one of its year.
weekday(d) == (d + 4) % 7

dayofyear(d) == ((d + YearLen - 2) % YearLen) + 1

\* date.strftime('%Y-%m') as a number that orders as the string does: the
\* year, then the month of MonthLen days within it.
strftime_month(d) ==
  ((d + YearLen - 2) \div YearLen) * YearLen + ((dayofyear(d) - 1) \div MonthLen)

\* -------------------------------------------------------------- feature rows
\* One feature row of forecast_demand: days_since_start, day_of_year and
\* is_weekend (as 0/1) of `date`, for a series that starts on `start`.
FeatureRow(date, start) ==
  << date - start, dayofyear(date), IF weekday(date) >= 5 THEN 1 ELSE 0 >>

NumFeatures == 3

Column(X, j) == Tuple([i \in 1..Len(X) |-> X[i][j]])

\* ------------------------------------------------------------ StandardScaler
\* StandardScaler.fit: per column the mean and the population standard
\* deviation; a column of zero variance gets scale 1.0.
ColumnMean(c) == RDiv(SumSeq(c) * Scale, Len(c))

ColumnVar(c) ==
  LET m == ColumnMean(c)
  IN RDiv(SumSeq(Tuple([i \in 1..Len(c) |->
                          (c[i] * Scale - m) * (c[i] * Scale - m)])),
          Len(c))

ColumnScale(c) == LET v == ColumnVar(c) IN IF v = 0 THEN Scale ELSE ISqrt(v)

StandardScalerFit(X) ==
  [mean_  |-> Tuple([j \in 1..NumFeatures |-> ColumnMean(Column(X, j))]),
   scale_ |-> Tuple([j \in 1..NumFeatures |-> ColumnScale(Column(X, j))])]

\* StandardScaler.transform of the rows X with the fitted parameters sc.
StandardScalerTransform(sc, X) ==
  Tuple([i \in 1..Len(X) |->
     Tuple([j \in 1..NumFeatures |->
        RDiv((X[i][j] * Scale - sc.mean_[j]) * Scale, sc.scale_[j])])])

\* ---------------------------------------------------------- LinearRegression
\* Determinant of a 3 x 3 integer matrix.
Det3(M) ==
    M[1][1] * (M[2][2] * M[3][3] - M[2][3] * M[3][2])
  - M[1][2] * (M[2][1] * M[3][3] - M[2][3] * M[3][1])
  + M[1][3] * (M[2][1] * M[3][2] - M[2][2] * M[3][1])

\* M restricted to the rows and columns in S, the others replaced by those
\* of the identity: its determinant is that of the restriction.
Pad(M, S) ==
  Tuple([r \in 1..3 |-> Tuple([c \in 1..3 |->
     IF r \in S /\ c \in S THEN M[r][c] ELSE IF r = c THEN 1 ELSE 0])])

\* Cramer's rule on the restriction of M x = v to S: the numerators of x
\* (0 outside S) over the common denominator CramerDen(M, S).
CramerDen(M, S) == Det3(Pad(M, S))

CramerNumPadded(A, S, v) ==
  Tuple([j \in 1..3 |->
     IF j \notin S THEN 0
     ELSE Det3(Tuple([r \in 1..3 |-> Tuple([c \in 1..3 |->
                  IF c = j THEN (IF r \in S THEN v[r] ELSE 0)
                  ELSE A[r][c]])]))])

CramerNum(M, S, v) == CramerNumPadded(Pad(M, S), S, v)

\* n times the centred cross products of the columns of X: the Gram matrix
\* of the centred feature columns, and their products with the centred y.
CrossProduct(a, b) == Len(a) * Dot(a, b) - SumSeq(a) * SumSeq(b)

GramOfColumns(c) ==
  Tuple([j \in 1..3 |-> Tuple([k \in 1..3 |-> CrossProduct(c[j], c[k])])])

Columns(X) == Tuple([j \in 1..3 |-> Column(X, j)])

Gram(X) == GramOfColumns(Columns(X))

GramYOfColumns(c, y) == Tuple([j \in 1..3 |-> CrossProduct(c[j], y)])

GramY(X, y) == GramYOfColumns(Columns(X), y)

\* A largest set of linearly independent centred columns, taken in order.
Grow(G, B, j) == IF CramerDen(G, B \cup {j}) # 0 THEN B \cup {j} ELSE B

Basis(G) == Grow(G, Grow(G, Grow(G, {}, 1), 2), 3)

\* v divided by the greatest common divisor of its entries.
DivideBy(v, g) == IF g = 0 THEN v ELSE Tuple([j \in 1..3 |-> v[j] \div g])

Primitive(v) == DivideBy(v, Gcd(Gcd(v[1], v[2]), v[3]))

\* For a non-constant column d outside the basis B: an integer vector of the
\* null space of the centred columns (column d minus its expansion in B).
NullVectorFrom(a, D, d) ==
  Primitive(Tuple([j \in 1..3 |-> IF j = d THEN D ELSE -a[j]]))

NullVector(G, B, d) ==
  NullVectorFrom(CramerNum(G, B, Tuple([r \in 1..3 |-> G[r][d]])),
                 CramerDen(G, B), d)

\* The non-constant columns outside the basis B, and their null vectors.
Dependent(G, B) == {j \in 1..3 : G[j][j] # 0} \ B

NullVectors(G, B) ==
  Tuple([d \in 1..3 |->
     IF G[d][d] # 0 /\ d \notin B THEN NullVector(G, B, d) ELSE <<0, 0, 0>>])

\* The products of the null vectors with each other and with the basic
\* solution P, weighted by the column variances G[j][j].
Weighted(G, a, b) ==
  G[1][1] * a[1] * b[1] + G[2][2] * a[2] * b[2] + G[3][3] * a[3] * b[3]

NullGram(G, N) ==
  Tuple([d \in 1..3 |-> Tuple([e \in 1..3 |-> Weighted(G, N[d], N[e])])])

NullRhs(G, N, P) == Tuple([d \in 1..3 |-> - Weighted(G, N[d], P)])

\* A rational vector num / den in lowest terms.
Lowest(num, den) ==
  [num |-> DivideBy(num, Gcd(Gcd(Gcd(num[1], num[2]), num[3]), den)),
   den |-> den \div Gcd(Gcd(Gcd(num[1], num[2]), num[3]), den)]

\* The basic solution P / D moved along the null vectors N by L / detW.
Combine(D, P, N, L, detW) ==
  Lowest(Tuple([j \in 1..3 |->
            P[j] * detW + L[1] * N[1][j] + L[2] * N[2][j] + L[3] * N[3][j]]),
         D * detW)

Project(D, P, N, Dep, W, rhs) ==
  Combine(D, P, N, CramerNum(W, Dep, rhs), CramerDen(W, Dep))

MinNorm(G, D, P, Dep, N) == Project(D, P, N, Dep, NullGram(G, N), NullRhs(G, N, P))

LstsqOnBasis(G, g, B) ==
  MinNorm(G, CramerDen(G, B), CramerNum(G, B, g), Dependent(G, B),
          NullVectors(G, B))

LstsqGram(G, g) == LstsqOnBasis(G, g, Basis(G))

\* scipy.linalg.lstsq on the standardized columns z_j = (x_j - mean_j) /
\* scale_j: the least-squares coefficients w of minimum norm.  With
\* w_j = scale_j * b_j, b solves the normal equations G b = g of the raw
\* centred columns and, among their solutions, minimises the sum of
\* G[j][j] * b_j^2 (scale_j^2 is G[j][j] / n^2; a constant column has a zero
\* z_j and gets b_j = 0).  The result is b as integer numerators over one
\* positive denominator.
LstsqRaw(X, y) == LstsqGram(Gram(X), GramY(X, y))

\* w_j = scale_j * b_j, rounded to fixed point.
Coefficients(b, scale) ==
  Tuple([j \in 1..NumFeatures |-> RDiv(b.num[j] * scale[j], b.den)])

\* LinearRegression.fit on the standardized rows of X (fit_intercept=True):
\* coef_ in fixed point, intercept_ the mean of y (the standardized columns
\* have mean 0).
LinearRegressionFit(X, y) ==
  [coef_      |-> Coefficients(LstsqRaw(X, y), StandardScalerFit(X).scale_),
   intercept_ |-> RDiv(SumSeq(y) * Scale, Len(y))]

\* LinearRegression.predict on standardized rows Xs.
LinearRegressionPredict(m, Xs) ==
  Tuple([i \in 1..Len(Xs) |->
     m.intercept_ + RDiv(m.coef_[1] * Xs[i][1], Scale)
                  + RDiv(m.coef_[2] * Xs[i][2], Scale)
                  + RDiv(m.coef_[3] * Xs[i][3], Scale)])

\* The sum of the squared differences of two fixed-point sequences.
SquaredDistance(a, b) ==
  SumSeq(Tuple([i \in 1..Len(a) |-> (a[i] - b[i]) * (a[i] - b[i])]))

Constant(n, v) == Tuple([i \in 1..n |-> v])

ToFixed(y) == Tuple([i \in 1..Len(y) |-> y[i] * Scale])

\* sklearn r2_score (LinearRegression.score): 1 - u / v with u the residual
\* and v the total sum of squares; with v = 0 it is 1.0 for u = 0 and 0.0
\* otherwise.
R2FromSums(u, v) ==
  IF v = 0 THEN (IF u = 0 THEN Scale ELSE 0) ELSE Scale - RDiv(u * Scale, v)

\* sklearn's r2_score: NaN for fewer than two samples.
R2Score(y, pred) ==
  IF Len(y) < 2 THEN NaN
  ELSE Float(R2FromSums(SquaredDistance(ToFixed(y), pred),
                        SquaredDistance(ToFixed(y),
                                        Constant(Len(y), RDiv(SumSeq(y) * Scale, Len(y))))))

LinearRegressionScore(m, Xs, y) == R2Score(y, LinearRegressionPredict(m, Xs))

\* np.std: the population standard deviation of a fixed-point sequence.
NpStd(r) ==
  ISqrt(RDiv(SquaredDistance(r, Constant(Len(r), RDiv(SumSeq(r), Len(r)))),
             Len(r)))

\* ------------------------------------------------------------------ dataset
Drugs == {"Aspirin", "Insulin"}

\* A name that is in no dataset.
UnknownDrug == "Unknown"

\* The rows of one drug over the days start .. start + len - 1, with the
\* demands of dem (a sequence of len values).
DrugRows(drug, start, dem) ==
  Tuple([i \in 1..Len(dem) |->
           [date |-> start + i - 1, drug_name |-> drug, demand |-> dem[i],
            month |-> strftime_month(start + i - 1)]])

\* The sequences of length len over the set S.
RECURSIVE SeqsOf(_, _)
SeqsOf(len, S) ==
  IF len = 0 THEN {<<>>}
  ELSE {Append(q, v) : q \in SeqsOf(len - 1, S), v \in S}

\* The frames _generate_dummy_data can return: for one date range, drug by
\* drug, one row per day.  The noise factor is an unbounded normal draw, so
\* every non-negative integer is a possible demand of every row.
Datasets(starts, lens) ==
  UNION {{DrugRows("Insulin", st, b) \o DrugRows("Aspirin", st, a) :
            a \in SeqsOf(len, 0..MaxDemand), b \in SeqsOf(len, 0..MaxDemand)} :
         <<st, len>> \in starts \X lens}

\* The same frames with the demands drawn from `values`.
DatasetsOver(starts, lens, values) ==
  UNION {{DrugRows("Insulin", st, b) \o DrugRows("Aspirin", st, a) :
            a \in SeqsOf(len, values), b \in SeqsOf(len, values)} :
         <<st, len>> \in starts \X lens}

\* ------------------------------------------------------- forecaster methods
VARIABLES drugs_data, scaler, model, op, ret, first, pc, frame,
          request, response

\* The state of the other applications: the global temperature_simulator of
\* iot_mock with the clock time.time() reads, and the DrugBatch table of
\* inventory with the current date.
VARIABLES temperature_simulator, clock, objects, today

vars == <<drugs_data, scaler, model, op, ret, first, pc, frame,
          request, response, temperature_simulator, clock, objects, today>>

apps == <<temperature_simulator, clock, objects, today>>

\* What the other applications leave alone: the forecaster, its callers'
\* bookkeeping and the forecast request in progress.
forecasting == <<drugs_data, scaler, model, first, request, response>>

\* The other applications untouched: no simulator, an empty table.
AppsIdle ==
  /\ temperature_simulator = [none |-> TRUE]
  /\ clock = 0
  /\ objects = {}
  /\ today = 0

\* What the direct callers of a forecaster leave alone: the web request in
\* progress.
web == <<request, response>>

\* StandardScaler() and LinearRegression() before any fit.
NewScaler == [fitted |-> FALSE, mean_ |-> <<>>, scale_ |-> <<>>]

NewModel == [fitted |-> FALSE, coef_ |-> <<>>, intercept_ |-> 0]

\* get_historical_data: the rows of one drug, or all rows for a falsy name.
get_historical_data(data, drug_name) ==
  IF drug_name # ""
    THEN SelectSeq(data, LAMBDA row : row.drug_name = drug_name)
    ELSE data

\* DataFrame.sort_values('date'): insertion of each row after the rows of
\* an earlier or equal date.
RECURSIVE InsertByDate(_, _)
InsertByDate(rows, row) ==
  IF rows = <<>> THEN <<row>>
  ELSE IF rows[Len(rows)].date <= row.date THEN Append(rows, row)
  ELSE Append(InsertByDate(SubSeq(rows, 1, Len(rows) - 1), row), rows[Len(rows)])

RECURSIVE sort_values(_)
sort_values(rows) ==
  IF rows = <<>> THEN <<>>
  ELSE InsertByDate(sort_values(SubSeq(rows, 1, Len(rows) - 1)), rows[Len(rows)])

RECURSIVE MinSeq(_)
MinSeq(q) == IF Len(q) = 1 THEN q[1] ELSE Min(q[1], MinSeq(Tail(q)))

RECURSIVE MaxSeq(_)
MaxSeq(q) == IF Len(q) = 1 THEN q[1] ELSE Max(q[1], MaxSeq(Tail(q)))

Dates(rows) == Tuple([i \in 1..Len(rows) |-> rows[i].date])

Demands(rows) == Tuple([i \in 1..Len(rows) |-> rows[i].demand])

\* The feature matrix of rows of dates counted from `start`.
Features(dates, start) ==
  Tuple([i \in 1..Len(dates) |-> FeatureRow(dates[i], start)])

\* FutureDates with the range started on the last historical date itself.
FutureDatesFromLast(last_date, forecast_days) ==
  Tuple([i \in 1..forecast_days |-> last_date + i - 1])

\* pd.date_range(start=last_date + 1 day, periods=forecast_days, freq='D').
FutureDates(last_date, forecast_days) ==
  Tuple([i \in 1..forecast_days |-> last_date + i])

\* The 1.96 of the confidence band, as ZNum / ZDen.
ZNum == 196

ZDen == 100

\* The locals of one forecast_demand call.
NewFrame(drug_name, forecast_days) ==
  [drug_name |-> drug_name, forecast_days |-> forecast_days,
   drug_data |-> <<>>, X |-> <<>>, y |-> <<>>, X_scaled |-> <<>>,
   future_dates |-> <<>>, X_future |-> <<>>, X_future_scaled |-> <<>>,
   predictions |-> <<>>,
   confidence_upper |-> <<>>, confidence_lower |-> <<>>]

NoFrame == NewFrame("", 0)

\* A forecaster's scaler and model together with the locals f of a call
\* running on it.
Machine(sc, m, f) == [scaler |-> sc, model |-> m, f |-> f]

\* The error dict of forecast_demand.
ErrorResult(drug_name) == [error |-> <<"No data found for drug", drug_name>>]

\* Lines 84-97: the drug's rows, sorted, with the features and the demand.
WithData(f, drug_data) ==
  IF drug_data = <<>> THEN f
  ELSE [f EXCEPT !.drug_data = drug_data,
                 !.X = Features(Dates(drug_data), MinSeq(Dates(drug_data))),
                 !.y = Demands(drug_data)]

PrepareData(data, c) ==
  [c EXCEPT !.f = WithData(c.f, sort_values(get_historical_data(data, c.f.drug_name)))]

\* 'error' in forecast_data, and its opposite for a dict of forecast_demand.
IsError(r) == "error" \in DOMAIN r

IsForecast(r) == "forecast_values" \in DOMAIN r

\* drug_data.empty, line 85.
NoData(c) == c.f.drug_data = <<>>

\* Line 100, self.scaler.fit_transform(X): the fit discards what an earlier
\* fit left in the scaler, then the transform standardizes X.
FittedScaler(p) == [fitted |-> TRUE, mean_ |-> p.mean_, scale_ |-> p.scale_]

ScalerFit(sc, X) == FittedScaler(StandardScalerFit(X))

TransformX(c) ==
  [c EXCEPT !.f.X_scaled = StandardScalerTransform(c.scaler, c.f.X)]

FitTransform(c) == TransformX([c EXCEPT !.scaler = ScalerFit(c.scaler, c.f.X)])

\* ModelFit that averages the new intercept with the one an earlier fit left.
WarmModelFit(m, X, y) ==
  IF m.fitted
    THEN [fitted |-> TRUE, coef_ |-> LinearRegressionFit(X, y).coef_,
          intercept_ |-> (m.intercept_ + LinearRegressionFit(X, y).intercept_) \div 2]
    ELSE [fitted |-> TRUE, coef_ |-> LinearRegressionFit(X, y).coef_,
          intercept_ |-> LinearRegressionFit(X, y).intercept_]

FittedModel(p) ==
  [fitted |-> TRUE, coef_ |-> p.coef_, intercept_ |-> p.intercept_]

\* Line 103, self.model.fit(X_scaled, y): the weights an earlier fit left are
\* discarded.  X is the raw matrix; LinearRegressionFit standardizes it.
ModelFit(m, X, y) == FittedModel(LinearRegressionFit(X, y))

Train(c) == [c EXCEPT !.model = ModelFit(c.model, c.f.X, c.f.y)]

\* Lines 106-123: the future dates and their features, standardized with
\* self.scaler as it is when the line runs.
\* WithFuture with self.scaler.fit_transform(X_future) at line 123: the
\* scaler refitted on the future rows.
WithFutureRefit(sc, f, start, future_dates) ==
  [f EXCEPT !.future_dates = future_dates,
            !.X_future = Features(future_dates, start),
            !.X_future_scaled =
               StandardScalerTransform(StandardScalerFit(Features(future_dates, start)),
                                       Features(future_dates, start))]

WithFuture(sc, f, start, future_dates) ==
  [f EXCEPT !.future_dates = future_dates,
            !.X_future = Features(future_dates, start),
            !.X_future_scaled =
               StandardScalerTransform(sc, Features(future_dates, start))]

\* TransformFuture with the days of the future rows counted from the first
\* future date.
TransformFutureFromZero(c) ==
  [c EXCEPT !.f = WithFuture(c.scaler, c.f, MaxSeq(Dates(c.f.drug_data)) + 1,
                             FutureDates(MaxSeq(Dates(c.f.drug_data)),
                                         c.f.forecast_days))]

TransformFuture(c) ==
  [c EXCEPT !.f = WithFuture(c.scaler, c.f, MinSeq(Dates(c.f.drug_data)),
                             FutureDates(MaxSeq(Dates(c.f.drug_data)),
                                         c.f.forecast_days))]

\* NonNegative without the np.maximum.
Unclamped(p) == p

\* Lines 126-127: np.maximum(self.model.predict(X_future_scaled), 0).
NonNegative(p) == Tuple([i \in 1..Len(p) |-> Max(p[i], 0)])

Predict(c) ==
  [c EXCEPT !.f.predictions =
      NonNegative(LinearRegressionPredict(c.model, c.f.X_future_scaled))]

\* Lines 130-133: the residual spread and the band around the predictions.
Residuals(y, fitted) == Tuple([i \in 1..Len(y) |-> y[i] * Scale - fitted[i]])

WithBand(f, width) ==
  [f EXCEPT
     !.confidence_upper =
        Tuple([i \in 1..Len(f.predictions) |-> f.predictions[i] + width]),
     !.confidence_lower =
        Tuple([i \in 1..Len(f.predictions) |-> Max(f.predictions[i] - width, 0)])]

ConfidenceBand(c) ==
  [c EXCEPT !.f =
      WithBand(c.f,
               RDiv(ZNum * NpStd(Residuals(c.f.y,
                       LinearRegressionPredict(c.model, c.f.X_scaled))), ZDen))]

\* Lines 135-144: the dict forecast_demand returns.
ForecastResult(c) ==
  [drug_name |-> c.f.drug_name,
   forecast_dates |-> c.f.future_dates,
   forecast_values |-> c.f.predictions,
   confidence_upper |-> c.f.confidence_upper,
   confidence_lower |-> c.f.confidence_lower,
   historical_dates |-> Dates(c.f.drug_data),
   historical_values |-> Demands(c.f.drug_data),
   model_score |-> LinearRegressionScore(c.model, c.f.X_scaled, c.f.y)]

\* What a call leaves: the forecaster's scaler and model, and the dict.
Outcome(c, result) == [scaler |-> c.scaler, model |-> c.model, ret |-> result]

Finish(c) == Outcome(c, ForecastResult(c))

\* RunFrom with a new scaler and model made before line 85.
RunFromReset(c) ==
  IF NoData(c) THEN [scaler |-> NewScaler, model |-> NewModel,
                     ret |-> ErrorResult(c.f.drug_name)]
  ELSE Finish(ConfidenceBand(Predict(TransformFuture(Train(FitTransform(c))))))

\* forecast_demand from line 85 to its return.
RunFrom(c) ==
  IF NoData(c) THEN Outcome(c, ErrorResult(c.f.drug_name))
  ELSE Finish(ConfidenceBand(Predict(TransformFuture(Train(FitTransform(c))))))

\* forecast_demand run from its first line to its return on a forecaster
\* whose scaler and model are sc and m.
forecast_demand(data, sc, m, drug_name, forecast_days) ==
  RunFrom(PrepareData(data, Machine(sc, m, NewFrame(drug_name, forecast_days))))

\* ------------------------------------------------- summary and ranking
\* round(x, 2) keeps a float to one part in Cent.
Cent == 100

\* drug_data['drug_name'].unique(): the names in order of first appearance.
RECURSIVE UniqueFrom(_, _, _)
UniqueFrom(data, i, seen) ==
  IF i > Len(data) THEN seen
  ELSE IF \E k \in DOMAIN seen : seen[k] = data[i].drug_name
    THEN UniqueFrom(data, i + 1, seen)
  ELSE UniqueFrom(data, i + 1, Append(seen, data[i].drug_name))

unique(data) == UniqueFrom(data, 1, <<>>)

\* round(mean of the integer sequence v, 2).
RoundedMean(v) == RoundHalfEven(SumSeq(v) * Cent, Len(v))

SumOfSquares(v) == Dot(v, v)

\* Series.std(): the sample standard deviation (ddof = 1) to the nearest
\* 1 / unit, NaN for fewer than two values.
SampleStd(v, unit) ==
  IF Len(v) < 2 THEN NaN
  ELSE Float((ISqrt((4 * unit * unit
                       * (Len(v) * SumOfSquares(v) - SumSeq(v) * SumSeq(v)))
                    \div (Len(v) * (Len(v) - 1))) + 1) \div 2)

\* round(Series.std(), 2).
RoundedStd(v) == SampleStd(v, Cent)

\* groupby('month')['demand'].mean(): the month keys in ascending order and
\* the demands of one month.
MonthKeys(rows) == {rows[i].month : i \in DOMAIN rows}

RECURSIVE DemandsOfMonth(_, _)
DemandsOfMonth(rows, k) ==
  IF rows = <<>> THEN <<>>
  ELSE IF Head(rows).month = k
    THEN <<Head(rows).demand>> \o DemandsOfMonth(Tail(rows), k)
  ELSE DemandsOfMonth(Tail(rows), k)

LastKey(K) == CHOOSE k \in K : \A j \in K : j <= k

FirstKey(K) == CHOOSE k \in K : \A j \in K : k <= j

\* previous_month_avg with monthly_avg.iloc[0], the mean of the first month.
first_month_avg(rows) ==
  IF Cardinality(MonthKeys(rows)) > 1
    THEN RoundedMean(DemandsOfMonth(rows, FirstKey(MonthKeys(rows))))
  ELSE 0

recent_month_avg(rows) ==
  IF MonthKeys(rows) = {} THEN 0
  ELSE RoundedMean(DemandsOfMonth(rows, LastKey(MonthKeys(rows))))

previous_month_avg(rows) ==
  IF Cardinality(MonthKeys(rows)) > 1
    THEN RoundedMean(DemandsOfMonth(rows,
           LastKey(MonthKeys(rows) \ {LastKey(MonthKeys(rows))})))
  ELSE 0

\* monthly_growth_rate with the difference divided by the recent average.
growth_over_recent(recent, previous) ==
  IF previous > 0 /\ recent > 0
    THEN RoundHalfEven((recent - previous) * 100 * Cent, recent)
  ELSE 0

\* Lines 165-172: the growth of recent over previous, in percent.
monthly_growth_rate(recent, previous) ==
  IF previous > 0 THEN RoundHalfEven((recent - previous) * 100 * Cent, previous)
  ELSE 0

DrugSummary(rows) ==
  [total_demand_last_year |-> SumSeq(Demands(rows)),
   average_daily_demand   |-> RoundedMean(Demands(rows)),
   max_demand             |-> MaxSeq(Demands(rows)),
   min_demand             |-> MinSeq(Demands(rows)),
   demand_volatility      |-> RoundedStd(Demands(rows)),
   recent_month_avg       |-> recent_month_avg(rows),
   previous_month_avg     |-> previous_month_avg(rows),
   monthly_growth_rate    |-> monthly_growth_rate(recent_month_avg(rows),
                                                  previous_month_avg(rows))]

get_summary_statistics(data) ==
  [drug \in {unique(data)[k] : k \in DOMAIN unique(data)} |->
     DrugSummary(get_historical_data(data, drug))]

\* groupby('drug_name')['demand'].sum(): the total of each name.
drug_totals(data) ==
  [drug \in {data[i].drug_name : i \in DOMAIN data} |->
     SumSeq(Demands(get_historical_data(data, drug)))]

RECURSIVE SumOver(_, _)
SumOver(f, S) ==
  IF S = {} THEN 0
  ELSE LET x == CHOOSE x \in S : TRUE IN f[x] + SumOver(f, S \ {x})

\* sort_values(ascending=False) with the default (unstable) quicksort: an
\* order of the names with totals that never increase; the order of equal
\* totals is the sort's.
RECURSIVE Orders(_)
Orders(S) ==
  IF S = {} THEN {<<>>}
  ELSE UNION {{<<x>> \o q : q \in Orders(S \ {x})} : x \in S}

Descending(totals) ==
  {q \in Orders(DOMAIN totals) :
     \A i \in 1..(Len(q) - 1) : totals[q[i]] >= totals[q[i + 1]]}

\* DataFrame.tail(30).
TailRows == 30

tail(rows, n) == SubSeq(rows, Max(1, Len(rows) - n + 1), Len(rows))

\* Series.head(top_n), top_n >= 0.
head(q, n) == SubSeq(q, 1, Min(n, Len(q)))

\* total / sum() * 100 rounded: 0 / 0 is NaN in numpy.
percentage_of_total(total, sum) ==
  IF sum = 0 THEN NaN ELSE Float(RoundHalfEven(total * 100 * Cent, sum))

TopDrug(data, totals, order, i) ==
  [rank                 |-> i,
   drug_name            |-> order[i],
   total_annual_demand  |-> totals[order[i]],
   average_daily_demand |->
     RoundedMean(Demands(tail(get_historical_data(data, order[i]), TailRows))),
   percentage_of_total  |->
     percentage_of_total(totals[order[i]], SumOver(totals, DOMAIN totals))]

\* get_top_drugs_by_demand for one outcome `order` of the sort.
get_top_drugs_by_demand(data, order, top_n) ==
  Tuple([i \in 1..Len(head(order, top_n)) |->
           TopDrug(data, drug_totals(data), order, i)])

\* -------------------------------------------------------------- the callers
Callers == {1, 2}

\* The drug names and horizons the callers pass.
Names == Drugs \cup {UnknownDrug}

Horizons == 1..MaxHorizon

NoOp == [method |-> "none", drug_name |-> "", n |-> 0]

NoReturn == [none |-> TRUE]

\* No web request yet, and no response to the request in progress yet.
NoRequest == [view |-> "none"]

NoResponse == [status |-> 0]

NoFirst == [drug_name |-> "", forecast_days |-> 0, ret |-> NoReturn, others |-> FALSE]

\* A forecaster as DemandForecaster.__init__ leaves it, with a dataset of D,
\* and no caller in any call.
InitWith(D) ==
  /\ drugs_data \in D
  /\ scaler = NewScaler
  /\ model = NewModel
  /\ op = [t \in Callers |-> NoOp]
  /\ ret = [t \in Callers |-> NoReturn]
  /\ first = NoFirst
  /\ pc = [t \in Callers |-> "idle"]
  /\ frame = [t \in Callers |-> NoFrame]
  /\ request = NoRequest
  /\ response = NoResponse
  /\ AppsIdle

\* Caller 1 runs forecast_demand(drug_name, forecast_days) from call to
\* return while no other call is in progress.
ForecastDemand(drug_name, forecast_days) ==
  LET r == forecast_demand(drugs_data, scaler, model, drug_name, forecast_days)
  IN /\ \A t \in Callers : pc[t] = "idle"
     /\ scaler' = r.scaler
     /\ model' = r.model
     /\ op' = [op EXCEPT ![1] = [method |-> "forecast_demand",
                                 drug_name |-> drug_name, n |-> forecast_days]]
     /\ ret' = [ret EXCEPT ![1] = r.ret]
     /\ UNCHANGED <<drugs_data, pc, frame, web, apps>>

\* The first forecast_demand call of a behaviour is remembered, with what
\* it returned and whether any other call has been made since.
RememberFirst(drug_name, forecast_days) ==
  first' = IF first = NoFirst
             THEN [drug_name |-> drug_name, forecast_days |-> forecast_days,
                   ret |-> ret'[1], others |-> FALSE]
           ELSE IF first.drug_name = drug_name /\ first.forecast_days = forecast_days
             THEN first
           ELSE [first EXCEPT !.others = TRUE]

RememberOther ==
  first' = IF first = NoFirst THEN first ELSE [first EXCEPT !.others = TRUE]

\* forecast_demand as a function of the dataset: any generated history of
\* up to MaxDays days, any calls in sequence.
\* A call of get_summary_statistics by caller 1.
GetSummaryStatistics ==
  /\ \A t \in Callers : pc[t] = "idle"
  /\ op' = [op EXCEPT ![1] = [method |-> "get_summary_statistics",
                              drug_name |-> "", n |-> 0]]
  /\ ret' = [ret EXCEPT ![1] = get_summary_statistics(drugs_data)]
  /\ UNCHANGED <<drugs_data, scaler, model, pc, frame, web, apps>>

\* A call of get_top_drugs_by_demand(top_n) by caller 1.
GetTopDrugsByDemand(top_n) ==
  /\ \A t \in Callers : pc[t] = "idle"
  /\ op' = [op EXCEPT ![1] = [method |-> "get_top_drugs_by_demand",
                              drug_name |-> "", n |-> top_n]]
  /\ \E order \in Descending(drug_totals(drugs_data)) :
       ret' = [ret EXCEPT ![1] = get_top_drugs_by_demand(drugs_data, order, top_n)]
  /\ UNCHANGED <<drugs_data, scaler, model, pc, frame, web, apps>>

InitForecast == InitWith(Datasets(0..MaxStart, 1..MaxDays))

NextForecast ==
  \E d \in Names, h \in Horizons : ForecastDemand(d, h) /\ UNCHANGED first

SpecForecast == InitForecast /\ [][NextForecast]_vars

\* One forecaster used by one caller at a time.
Init == InitWith(Datasets({0, MaxStart}, {MaxDays - 1}))

Next ==
  \/ \E d \in Names, h \in Horizons : ForecastDemand(d, h) /\ RememberFirst(d, h)
  \/ GetSummaryStatistics /\ RememberOther
  \/ \E n \in 1..MaxTopN : GetTopDrugsByDemand(n) /\ RememberOther

Spec == Init /\ [][Next]_vars

\* The summary and the ranking as functions of the dataset: histories of up
\* to MaxDays days that lie in one, two or three months, with demands that
\* give month means of 0, 50 and 75 among others.
SummaryDemands == {0, 50, 75}

InitSummary ==
  InitWith(DatasetsOver({MaxStart - 1, MaxStart + 1}, 1..MaxDays, SummaryDemands))

NextSummary ==
  \/ GetSummaryStatistics /\ UNCHANGED first
  \/ \E n \in 0..MaxTopN : GetTopDrugsByDemand(n) /\ UNCHANGED first

SpecSummary == InitSummary /\ [][NextSummary]_vars

\* ------------------------------------------- two callers on one forecaster
\* The bounds of the histories and horizons of the concurrent callers.
ConcDays == 2

ConcHorizon == 2

\* Caller t enters forecast_demand(drug_name, forecast_days).
Call(t, drug_name, forecast_days) ==
  /\ pc[t] = "idle"
  /\ pc' = [pc EXCEPT ![t] = "line84"]
  /\ op' = [op EXCEPT ![t] = [method |-> "forecast_demand",
                              drug_name |-> drug_name, n |-> forecast_days]]
  /\ frame' = [frame EXCEPT ![t] = NewFrame(drug_name, forecast_days)]
  /\ ret' = [ret EXCEPT ![t] = NoReturn]
  /\ UNCHANGED <<drugs_data, scaler, model, first, web, apps>>

\* Caller t takes the step `stage` of its call and goes on to `next`.
Step(t, c, next) ==
  /\ scaler' = c.scaler
  /\ model' = c.model
  /\ frame' = [frame EXCEPT ![t] = c.f]
  /\ pc' = [pc EXCEPT ![t] = next]
  /\ UNCHANGED <<drugs_data, op, ret, first, web, apps>>

Running(t) == Machine(scaler, model, frame[t])

\* Lines 84-86: no rows, the error dict is returned.
ReturnError(t) ==
  /\ pc[t] = "line84"
  /\ NoData(PrepareData(drugs_data, Running(t)))
  /\ ret' = [ret EXCEPT ![t] = ErrorResult(frame[t].drug_name)]
  /\ pc' = [pc EXCEPT ![t] = "idle"]
  /\ frame' = [frame EXCEPT ![t] = NoFrame]
  /\ UNCHANGED <<drugs_data, scaler, model, op, first, web, apps>>

\* Lines 84-97.
PrepareStep(t) ==
  /\ pc[t] = "line84"
  /\ ~NoData(PrepareData(drugs_data, Running(t)))
  /\ Step(t, PrepareData(drugs_data, Running(t)), "line100")

\* Line 100.
FitTransformStep(t) ==
  /\ pc[t] = "line100"
  /\ Step(t, FitTransform(Running(t)), "line103")

\* Line 103.
TrainStep(t) ==
  /\ pc[t] = "line103"
  /\ Step(t, Train(Running(t)), "line106")

\* Lines 106-123.
TransformFutureStep(t) ==
  /\ pc[t] = "line106"
  /\ Step(t, TransformFuture(Running(t)), "line126")

\* Lines 126-127.
PredictStep(t) ==
  /\ pc[t] = "line126"
  /\ Step(t, Predict(Running(t)), "line130")

\* Lines 130-133.
ConfidenceBandStep(t) ==
  /\ pc[t] = "line130"
  /\ Step(t, ConfidenceBand(Running(t)), "line135")

\* Lines 135-144.
ReturnStep(t) ==
  /\ pc[t] = "line135"
  /\ ret' = [ret EXCEPT ![t] = ForecastResult(Running(t))]
  /\ pc' = [pc EXCEPT ![t] = "idle"]
  /\ frame' = [frame EXCEPT ![t] = NoFrame]
  /\ UNCHANGED <<drugs_data, scaler, model, op, first, web, apps>>

InitConc == InitWith(Datasets({0}, {ConcDays}))

NextConc ==
  \E t \in Callers :
    \/ \E d \in Names, h \in 1..ConcHorizon : Call(t, d, h)
    \/ ReturnError(t)
    \/ PrepareStep(t)
    \/ FitTransformStep(t)
    \/ TrainStep(t)
    \/ TransformFutureStep(t)
    \/ PredictStep(t)
    \/ ConfidenceBandStep(t)
    \/ ReturnStep(t)

SpecConc == InitConc /\ [][NextConc]_vars

\* ---------------------------------------------------------------- views.py
\* The horizon the dashboard, chart and export views ask for, the default
\* and the limits of the API's days parameter, the horizon and the list
\* limits of the comparison view, and top_n of the dashboard.
ViewHorizon == 90

ChartHorizon == 90

DefaultDays == 90

MinForecastDays == 7

MaxForecastDays == 365

ComparisonHorizon == 30

ComparisonTopN == 3

ComparisonLimit == 5

DashboardTopN == 5

\* Days of history of the forecaster a view constructs.
ViewDays == 2

\* A query parameter: absent, or given with a text.
Absent(text) == [given |-> FALSE, text |-> text]

Given(text) == [given |-> TRUE, text |-> text]

\* int(text) for a text of decimal digits with an optional sign; ok is
\* FALSE where int raises ValueError.
DigitChars == <<"0", "1", "2", "3", "4", "5", "6", "7", "8", "9">>

IsDigit(ch) == \E k \in DOMAIN DigitChars : DigitChars[k] = ch

DigitValue(ch) == (CHOOSE k \in DOMAIN DigitChars : DigitChars[k] = ch) - 1

RECURSIVE DigitsValue(_, _)
DigitsValue(text, acc) ==
  IF text = <<>> THEN acc
  ELSE DigitsValue(Tail(text), 10 * acc + DigitValue(Head(text)))

AllDigits(text) == text # <<>> /\ \A k \in DOMAIN text : IsDigit(text[k])

ParseInt(text) ==
  IF text # <<>> /\ Head(text) = "-"
    THEN [ok |-> AllDigits(Tail(text)),
          value |-> IF AllDigits(Tail(text)) THEN -DigitsValue(Tail(text), 0) ELSE 0]
  ELSE IF text # <<>> /\ Head(text) = "+"
    THEN [ok |-> AllDigits(Tail(text)),
          value |-> IF AllDigits(Tail(text)) THEN DigitsValue(Tail(text), 0) ELSE 0]
  ELSE [ok |-> AllDigits(text),
        value |-> IF AllDigits(text) THEN DigitsValue(text, 0) ELSE 0]

\* An HTTP response with a body, and the response to a request whose
\* handler raised.
Response(status, body) == [status |-> status, body |-> body]

Raised(exception) == [status |-> 500, raised |-> exception]

None == [none |-> TRUE]

\* What a handler leaves: its forecaster's scaler and model, and the
\* response.
Handled(sc, m, resp) == [scaler |-> sc, model |-> m, response |-> resp]

\* drugs_data['drug_name'].unique().tolist(), and sorted() of it.
InList(q, name) == \E k \in DOMAIN q : q[k] = name

Alphabetical == <<"Aspirin", "Insulin", "Unknown">>

RECURSIVE Keep(_, _)
Keep(q, names) ==
  IF q = <<>> THEN <<>>
  ELSE IF InList(names, Head(q)) THEN <<Head(q)>> \o Keep(Tail(q), names)
  ELSE Keep(Tail(q), names)

sorted(names) == Keep(Alphabetical, names)

\* create_forecast_chart: None for an error dict, else the picture of the
\* forecast.
ChartFrom(r) ==
  [scaler |-> r.scaler, model |-> r.model,
   ret |-> IF IsError(r.ret) THEN None ELSE [chart_of |-> r.ret.drug_name]]

create_forecast_chart(data, sc, m, drug_name) ==
  ChartFrom(forecast_demand(data, sc, m, drug_name, ChartHorizon))

\* Line 173.
ClampLow(days) == Max(days, MinForecastDays)

ClampDays(days) == Min(Max(days, MinForecastDays), MaxForecastDays)

\* api_forecast_data, lines 161-180.
ApiForecastResponse(r) ==
  Handled(r.scaler, r.model, Response(200, [status |-> "success", data |-> r.ret]))

api_forecast_data(data, req) ==
  IF ~InList(unique(data), req.drug.text)
    THEN Handled(NewScaler, NewModel, Response(404, [error |-> "Drug not found"]))
  ELSE IF req.days.given /\ ~ParseInt(req.days.text).ok
    THEN Handled(NewScaler, NewModel, Raised("ValueError"))
  ELSE ApiForecastResponse(
         forecast_demand(data, NewScaler, NewModel, req.drug.text,
                         ClampDays(IF req.days.given THEN ParseInt(req.days.text).value
                                   ELSE DefaultDays)))

\* ajax_forecast_chart, lines 95-117, from the construction of the
\* forecaster on.
AjaxChartResponse(f, chart) ==
  Handled(chart.scaler, chart.model,
          Response(200, [chart_data |-> chart.ret, forecast_data |-> f.ret,
                         drug_name |-> f.ret.drug_name]))

AjaxChart(data, f) ==
  AjaxChartResponse(f, create_forecast_chart(data, f.scaler, f.model, f.ret.drug_name))

ajax_forecast_chart(data, req) ==
  IF ~InList(unique(data), req.drug.text)
    THEN Handled(NewScaler, NewModel, Response(404, [error |-> "Drug not found"]))
  ELSE AjaxChart(data, forecast_demand(data, NewScaler, NewModel, req.drug.text,
                                       ViewHorizon))

\* forecast_view, lines 57-91; `order` is the outcome of the sort in
\* get_top_drugs_by_demand.
DashboardContext(data, order, selected, chart_data, forecast_data) ==
  [available_drugs |-> sorted(unique(data)),
   selected_drug   |-> selected,
   summary_stats   |-> get_summary_statistics(data),
   top_drugs       |-> get_top_drugs_by_demand(data, order, DashboardTopN),
   chart_data      |-> chart_data,
   forecast_data   |-> forecast_data]

DashboardResponse(data, order, selected, chart, f) ==
  Handled(f.scaler, f.model,
          Response(200, DashboardContext(data, order, selected, chart.ret, f.ret)))

DashboardForecast(data, order, selected, chart) ==
  DashboardResponse(data, order, selected, chart,
                    forecast_demand(data, chart.scaler, chart.model, selected,
                                    ViewHorizon))

Dashboard(data, order, selected) ==
  IF selected = ""
    THEN Handled(NewScaler, NewModel,
                 Response(200, DashboardContext(data, order, selected, None, None)))
  ELSE DashboardForecast(data, order, selected,
                         create_forecast_chart(data, NewScaler, NewModel, selected))

\* A dataset has rows, so the default available_drugs[0] is never None.
forecast_view(data, order, req) ==
  Dashboard(data, order,
            IF req.drug.given THEN req.drug.text ELSE sorted(unique(data))[1])

\* export_forecast_data, lines 210-244, from the construction of the
\* forecaster on: int() of the NaN that min() of no rows is raises
\* ValueError.
ExportData(data, historical_data, forecast_data) ==
  [drug_name          |-> forecast_data.drug_name,
   export_timestamp   |-> MaxSeq(Dates(data)),
   forecast           |-> forecast_data,
   historical_summary |->
     [total_records |-> Len(historical_data),
      date_range    |-> [start |-> MinSeq(Dates(historical_data)),
                         end   |-> MaxSeq(Dates(historical_data))],
      demand_stats  |->
        [mean |-> RDiv(SumSeq(Demands(historical_data)) * Scale, Len(historical_data)),
         std  |-> SampleStd(Demands(historical_data), Scale),
         min  |-> MinSeq(Demands(historical_data)),
         max  |-> MaxSeq(Demands(historical_data))]]]

Export(data, historical_data, f) ==
  IF historical_data = <<>> THEN Handled(f.scaler, f.model, Raised("ValueError"))
  ELSE Handled(f.scaler, f.model,
               Response(200, ExportData(data, historical_data, f.ret)))

export_forecast_data(data, req) ==
  Export(data, get_historical_data(data, req.drug.text),
         forecast_demand(data, NewScaler, NewModel, req.drug.text, ViewHorizon))

\* forecast_comparison, lines 247-280.  The loop of lines 264-270: an error
\* dict has no 'forecast_values', and the subscript raises KeyError.
ComparisonEntry(drug, forecast_data) ==
  [drug |-> drug,
   forecast_avg |-> RDiv(SumSeq(forecast_data.forecast_values),
                         Len(forecast_data.forecast_values)),
   historical_avg |->
     RDiv(SumSeq(tail(forecast_data.historical_values, ComparisonHorizon)) * Scale,
          Len(tail(forecast_data.historical_values, ComparisonHorizon))),
   trend |-> IF forecast_data.forecast_values[Len(forecast_data.forecast_values)]
                  > forecast_data.forecast_values[1]
               THEN "increasing" ELSE "decreasing"]

RECURSIVE CompareFrom(_, _, _, _, _)
RECURSIVE CompareNext(_, _, _, _)
CompareNext(data, f, drugs, entries) ==
  IF IsError(f.ret)
    THEN [scaler |-> f.scaler, model |-> f.model, raised |-> TRUE, entries |-> entries]
  ELSE CompareFrom(data, f.scaler, f.model, Tail(drugs),
                   Append(entries, ComparisonEntry(Head(drugs), f.ret)))

CompareFrom(data, sc, m, drugs, entries) ==
  IF drugs = <<>>
    THEN [scaler |-> sc, model |-> m, raised |-> FALSE, entries |-> entries]
  ELSE CompareNext(data,
                   forecast_demand(data, sc, m, Head(drugs), ComparisonHorizon),
                   drugs, entries)

\* comparison_data: a later entry of a drug replaces an earlier one.
LastEntry(entries, drug) ==
  entries[CHOOSE k \in DOMAIN entries :
            /\ entries[k].drug = drug
            /\ \A j \in DOMAIN entries : entries[j].drug = drug => j <= k]

ComparisonContext(data, selected_drugs, entries) ==
  [selected_drugs  |-> selected_drugs,
   comparison_data |-> [drug \in {entries[k].drug : k \in DOMAIN entries} |->
                          LastEntry(entries, drug)],
   available_drugs |-> sorted(unique(data))]

ComparisonResponse(data, selected_drugs, c) ==
  IF c.raised THEN Handled(c.scaler, c.model, Raised("KeyError"))
  ELSE Handled(c.scaler, c.model,
               Response(200, ComparisonContext(data, selected_drugs, c.entries)))

Compare(data, selected_drugs) ==
  ComparisonResponse(data, selected_drugs,
                     CompareFrom(data, NewScaler, NewModel, selected_drugs, <<>>))

TopNames(top_drugs) == Tuple([k \in DOMAIN top_drugs |-> top_drugs[k].drug_name])

\* `ranked` is the dataset of the forecaster of line 254, `data` that of the
\* forecaster of line 261.
forecast_comparison(ranked, order, data, req) ==
  Compare(data,
          head(IF req.drugs = <<>>
                 THEN TopNames(get_top_drugs_by_demand(ranked, order, ComparisonTopN))
               ELSE req.drugs,
               ComparisonLimit))

\* ------------------------------------------------------------- web requests
\* The texts of the days parameter, the drug parameter and the drugs list
\* that the requests carry.
DaysTexts ==
  {<<"6">>, <<"7">>, <<"4", "5">>, <<"3", "6", "5">>, <<"3", "6", "6">>,
   <<"-", "1">>, <<"x">>, <<>>}

DaysParams == {Absent(<<>>)} \cup {Given(t) : t \in DaysTexts}

DrugParams == {Absent("")} \cup {Given(n) : n \in Names \cup {""}}

DrugLists == {<<>>} \cup {<<n>> : n \in Names} \cup {<<n, m>> : n, m \in Names}

Request(view, drug, days, drugs) ==
  [view |-> view, drug |-> drug, days |-> days, drugs |-> drugs]

Requests ==
  {Request("api_forecast_data", Given(n), d, <<>>) : n \in Names, d \in DaysParams}
  \cup {Request(v, p, Absent(<<>>), <<>>) :
          v \in {"ajax_forecast_chart", "forecast_view", "export_forecast_data"},
          p \in DrugParams}
  \cup {Request("forecast_comparison", Absent(""), Absent(<<>>), q) : q \in DrugLists}

\* The datasets the forecaster of a request can generate.
ViewDatasets == Datasets({0}, {ViewDays})

\* A request arrives; the forecaster of the request before it is gone.
Receive(req) ==
  /\ request = NoRequest \/ response # NoResponse
  /\ request' = req
  /\ response' = NoResponse
  /\ drugs_data' = <<>>
  /\ scaler' = NewScaler
  /\ model' = NewModel
  /\ UNCHANGED <<op, ret, first, pc, frame, apps>>

Pending(view) == request # NoRequest /\ request.view = view /\ response = NoResponse

\* The handler returns, having constructed a forecaster on `data`.
Respond(data, h) ==
  /\ drugs_data' = data
  /\ scaler' = h.scaler
  /\ model' = h.model
  /\ response' = h.response
  /\ UNCHANGED <<request, op, ret, first, pc, frame, apps>>

\* Lines 98-99 and 214-215: no drug name, no forecaster.
RequireDrug(view) ==
  /\ Pending(view)
  /\ request.drug.text = ""
  /\ response' = Response(400, [error |-> "Drug name is required"])
  /\ UNCHANGED <<request, drugs_data, scaler, model, op, ret, first, pc, frame, apps>>

ApiForecastData ==
  /\ Pending("api_forecast_data")
  /\ \E data \in ViewDatasets : Respond(data, api_forecast_data(data, request))

AjaxForecastChart ==
  \/ RequireDrug("ajax_forecast_chart")
  \/ /\ Pending("ajax_forecast_chart")
     /\ request.drug.text # ""
     /\ \E data \in ViewDatasets : Respond(data, ajax_forecast_chart(data, request))

ForecastView ==
  /\ Pending("forecast_view")
  /\ \E data \in ViewDatasets :
       \E order \in Descending(drug_totals(data)) :
         Respond(data, forecast_view(data, order, request))

ExportForecastData ==
  \/ RequireDrug("export_forecast_data")
  \/ /\ Pending("export_forecast_data")
     /\ request.drug.text # ""
     /\ \E data \in ViewDatasets : Respond(data, export_forecast_data(data, request))

ForecastComparison ==
  /\ Pending("forecast_comparison")
  /\ \/ /\ request.drugs = <<>>
        /\ \E ranked \in ViewDatasets, data \in ViewDatasets :
             \E order \in Descending(drug_totals(ranked)) :
               Respond(data, forecast_comparison(ranked, order, data, request))
     \/ /\ request.drugs # <<>>
        /\ \E data \in ViewDatasets :
             Respond(data, forecast_comparison(data, <<>>, data, request))

InitViews == InitWith({<<>>})

NextViews ==
  \/ \E req \in Requests : Receive(req)
  \/ ApiForecastData
  \/ AjaxForecastChart
  \/ ForecastView
  \/ ExportForecastData
  \/ ForecastComparison

SpecViews == InitViews /\ [][NextViews]_vars

\* ------------------------------------------------ frames handed to callers
\* A frame a caller holds: its rows, and whether it shares its memory with
\* self.drugs_data.  A frame that is not copied shares it.
no_copy(rows) == [rows |-> rows, shares |-> TRUE]

\* DataFrame.copy(): a frame with memory of its own.
copy(rows) == [rows |-> rows, shares |-> FALSE]

\* A call of get_historical_data(drug_name) by caller 1; "" stands for a
\* call without a name.
GetHistoricalData(drug_name) ==
  /\ \A t \in Callers : pc[t] = "idle"
  /\ op' = [op EXCEPT ![1] = [method |-> "get_historical_data",
                              drug_name |-> drug_name, n |-> 0]]
  /\ ret' = [ret EXCEPT ![1] = copy(get_historical_data(drugs_data, drug_name))]
  /\ UNCHANGED <<drugs_data, scaler, model, first, pc, frame, web, apps>>

\* A call of create_forecast_chart(drug_name) by caller 1.
CreateForecastChart(drug_name) ==
  LET r == create_forecast_chart(drugs_data, scaler, model, drug_name)
  IN /\ \A t \in Callers : pc[t] = "idle"
     /\ scaler' = r.scaler
     /\ model' = r.model
     /\ op' = [op EXCEPT ![1] = [method |-> "create_forecast_chart",
                                 drug_name |-> drug_name, n |-> 0]]
     /\ ret' = [ret EXCEPT ![1] = r.ret]
     /\ UNCHANGED <<drugs_data, first, pc, frame, web, apps>>

\* The rows of data with the demand of the row of one drug and date set to
\* demand: what a write to a frame does to the memory it shares.
WriteThrough(data, row, demand) ==
  Tuple([k \in 1..Len(data) |->
           IF data[k].drug_name = row.drug_name /\ data[k].date = row.date
             THEN [data[k] EXCEPT !.demand = demand]
           ELSE data[k]])

\* The demand a caller writes into a frame it was given: one that no row of
\* the dataset has.
WrittenDemand == MaxDemand + 1

\* The caller of get_historical_data writes a demand into one row of the
\* frame it was given.
ModifyReturned ==
  /\ \A t \in Callers : pc[t] = "idle"
  /\ op[1].method = "get_historical_data"
  /\ \E i \in DOMAIN ret[1].rows :
       /\ ret[1].rows[i].demand # WrittenDemand
       /\ ret' = [ret EXCEPT ![1].rows[i].demand = WrittenDemand]
       /\ drugs_data' = IF ret[1].shares
                          THEN WriteThrough(drugs_data, ret[1].rows[i], WrittenDemand)
                        ELSE drugs_data
  /\ UNCHANGED <<scaler, model, op, first, pc, frame, web, apps>>

\* One forecaster, every method called in any order, and the frames given
\* out written to.
InitFrame == InitWith(Datasets({0}, {ConcDays}))

NextFrame ==
  \/ \E d \in Names, h \in Horizons : ForecastDemand(d, h) /\ UNCHANGED first
  \/ GetSummaryStatistics /\ UNCHANGED first
  \/ \E n \in 1..MaxTopN : GetTopDrugsByDemand(n) /\ UNCHANGED first
  \/ \E d \in Names \cup {""} : GetHistoricalData(d)
  \/ \E d \in Names : CreateForecastChart(d)
  \/ ModifyReturned

SpecFrame == InitFrame /\ [][NextFrame]_vars

\* ---------------------------------------------------- the dataset generator
\* The bounds of a generation: the days between start_date and end_date
\* (the source goes back one year), and the latest day datetime.now() gives.
GenDays == 2

MaxNow == 3

\* The number num / den.
Ratio(num, den) == [num |-> num, den |-> den]

\* The float nearest to a ratio.
Fixed(r) == RDiv(r.num * Scale, r.den)

\* The product of two floats.
Mul(a, b) == RDiv(a * b, Scale)

\* The drugs dict, in its order.
drugs ==
  << [drug_name |-> "Insulin", base_demand |-> 500,
      seasonality |-> Ratio(1, 10), trend |-> Ratio(1, 100)],
     [drug_name |-> "Aspirin", base_demand |-> 600,
      seasonality |-> Ratio(2, 10), trend |-> Ratio(5, 1000)] >>

\* sin of num / den turns (np.sin(2 * np.pi * num / den)), by Bhaskara's
\* formula 16 x (1 - x) / (5 - 4 x (1 - x)) for x half turns: exact at the
\* multiples of a quarter turn and within 0.002 elsewhere.
HalfSin(num, den) ==
  RDiv(32 * num * (den - 2 * num) * Scale,
       5 * den * den - 8 * num * (den - 2 * num))

sin(num, den) ==
  IF 2 * (num % den) <= den THEN HalfSin(num % den, den)
  ELSE -HalfSin(2 * (num % den) - den, 2 * den)

\* The days from start up to but not including end.
half_open_range(start, end) ==
  Tuple([i \in 1..(end - start) |-> start + i - 1])

\* pd.date_range(start, end, freq='D'): every day from start to end, both
\* included.
date_range(start, end) ==
  Tuple([i \in 1..(end - start + 1) |-> start + i - 1])

\* The days of a generation whose clock reads now.
GenDates(now) == date_range(now - GenDays, now)

seasonal_factor(params, date) ==
  Scale + Mul(Fixed(params.seasonality), sin(dayofyear(date), YearLen))

trend_factor(params, date, start_date) ==
  Scale + RDiv(Fixed(params.trend) * (date - start_date), YearLen)

\* The noise factors drawn in the model, of the floats np.random.normal(1,
\* 0.1) can return: below zero, zero, just below one, one, above one.
NoiseFactors ==
  {Fixed(Ratio(-1, 2)), 0, Fixed(Ratio(97, 100)), Scale, Fixed(Ratio(11, 10))}

weekend_factor(date) == IF weekday(date) >= 5 THEN Fixed(Ratio(7, 10)) ELSE Scale

\* base_demand * seasonal_factor * trend_factor * noise_factor *
\* weekend_factor, as a float.
DemandProduct(base_demand, seasonal, trend, noise, weekend) ==
  Mul(Mul(Mul(base_demand * seasonal, trend), noise), weekend)

\* int() of a float: the fraction is dropped, towards zero.
int(v) == IF v >= 0 THEN v \div Scale ELSE -((-v) \div Scale)

\* demand = max(0, demand) with the sign kept instead.
KeepSign(demand) == demand

\* demand = max(0, demand).
EnsureNonNegative(demand) == Max(0, demand)

\* The locals of one pass of the inner loop, for one noise factor.
GenLocals(params, date, start_date, noise) ==
  [day_of_year |-> dayofyear(date),
   seasonal_factor |-> seasonal_factor(params, date),
   days_since_start |-> date - start_date,
   trend_factor |-> trend_factor(params, date, start_date),
   noise_factor |-> noise,
   weekend_factor |-> weekend_factor(date),
   base_demand |-> params.base_demand]

\* The demand of one pass from its locals.
GenDemand(l) ==
  EnsureNonNegative(int(DemandProduct(l.base_demand, l.seasonal_factor,
                                      l.trend_factor, l.noise_factor,
                                      l.weekend_factor)))

\* The row one pass appends.
GenRow(params, date, demand) ==
  [date |-> date, drug_name |-> params.drug_name, demand |-> demand,
   month |-> strftime_month(date)]

\* The frame of a _generate_dummy_data call: the rows so far and the locals
\* of the last pass.
GenFrame(all_data, locals) == [all_data |-> all_data, locals |-> locals]

NoLocals == [noise_factor |-> Scale]

\* A forecaster in construction: __init__ has made the model and the scaler
\* and _generate_dummy_data has read the clock.
InitGenerate ==
  /\ drugs_data = <<>>
  /\ scaler = NewScaler
  /\ model = NewModel
  /\ \E now \in (MaxNow - 1)..MaxNow :
       op = [t \in Callers |->
               IF t = 1 THEN [method |-> "_generate_dummy_data",
                              drug_name |-> "", n |-> now]
               ELSE NoOp]
  /\ ret = [t \in Callers |-> NoReturn]
  /\ first = NoFirst
  /\ pc = [t \in Callers |-> IF t = 1 THEN "line45" ELSE "idle"]
  /\ frame = [t \in Callers |-> IF t = 1 THEN GenFrame(<<>>, NoLocals) ELSE NoFrame]
  /\ request = NoRequest
  /\ response = NoResponse
  /\ AppsIdle

\* One pass of the inner loop: the next date of the drug in turn, or the
\* first date of the next drug.
GenerateRow ==
  LET dates == GenDates(op[1].n)
      done == Len(frame[1].all_data)
      params == drugs[(done \div Len(dates)) + 1]
      date == dates[(done % Len(dates)) + 1]
  IN /\ pc[1] = "line45"
     /\ done < Len(drugs) * Len(dates)
     /\ \E noise \in NoiseFactors :
          LET l == GenLocals(params, date, dates[1], noise)
          IN frame' = [frame EXCEPT ![1] =
                         GenFrame(Append(frame[1].all_data,
                                         GenRow(params, date, GenDemand(l))), l)]
     /\ UNCHANGED <<drugs_data, scaler, model, op, ret, first, pc, web, apps>>

\* Both loops are over: the frame is returned and __init__ keeps it.
GenerateReturn ==
  /\ pc[1] = "line45"
  /\ Len(frame[1].all_data) = Len(drugs) * Len(GenDates(op[1].n))
  /\ drugs_data' = frame[1].all_data
  /\ pc' = [pc EXCEPT ![1] = "idle"]
  /\ UNCHANGED <<scaler, model, op, ret, first, frame, web, apps>>

NextGenerate == GenerateRow \/ GenerateReturn

SpecGenerate == InitGenerate /\ [][NextGenerate]_vars

\* ------------------------------------------------- the cold chain simulator
\* iot_mock: the ColdChainSimulator of simulate_temp.py and the views of
\* iot_mock/views.py that share the global instance temperature_simulator.
\* A temperature is a float (v / Scale degrees); time is in seconds.

\* The bounds: the last reading of time.time(), the scenario durations
\* random.randint(300, 1800) is cut down to, and the hours of history asked.
MaxClock == 5

MinDuration == 1

MaxDuration == 3

MaxHours == 1

safe_min == Fixed(Ratio(2, 1))

safe_max == Fixed(Ratio(8, 1))

optimal_temp == Fixed(Ratio(5, 1))

\* Two of the five scenarios, with their temp_drift and malfunction_chance.
scenarios ==
  [s \in {"normal", "cooling_failure"} |->
     IF s = "normal"
       THEN [temp_drift |-> Ratio(5, 10), malfunction_chance |-> Ratio(0, 1)]
     ELSE [temp_drift |-> Ratio(4, 1), malfunction_chance |-> Ratio(8, 10)]]

\* Two of the four storage locations.
storage_locations ==
  [l \in {"main_refrigerator", "transport_cooler"} |->
     IF l = "main_refrigerator"
       THEN [name |-> "Main Vaccine Refrigerator", reliability |-> Ratio(95, 100),
             base_temp |-> Ratio(45, 10)]
     ELSE [name |-> "Mobile Transport Unit", reliability |-> Ratio(85, 100),
           base_temp |-> Ratio(6, 1)]]

\* A location id that is not in storage_locations, and a scenario name that
\* is not in scenarios.
UnknownLocation == "loading_dock"

InvalidScenario == "meltdown"

\* The simulator as __init__ leaves it at time `now`, for one draw of
\* random.randint(300, 1800).
NewSimulator(now, duration) ==
  [current_scenario |-> "normal", last_temp |-> optimal_temp,
   scenario_start_time |-> now, scenario_duration |-> duration]

Durations == {MinDuration, MaxDuration}

\* Draws of random.uniform(-1, 1), which scale the drift and the noise: the
\* two ends for the drift, the middle for the noise.
DriftDraws == {-1, 1}

NoiseDraws == {0}

\* Draws of random.uniform(-5, 25): temperatures that round(, 1) takes to
\* both sides of each limit of the status ranges.
MalfunctionTemps ==
  {Fixed(Ratio(94, 100)), Fixed(Ratio(96, 100)), Fixed(Ratio(194, 100)),
   Fixed(Ratio(196, 100)), Fixed(Ratio(804, 100)), Fixed(Ratio(806, 100)),
   Fixed(Ratio(904, 100)), Fixed(Ratio(906, 100))}

\* round(v, 1).
round1(v) == RDiv(RoundHalfEven(v * 10, Scale) * Scale, 10)

\* 600 * 2 * pi seconds: the cycle of math.sin(current_time / 600).
CycleSeconds == 3770

\* Lines 83-87: the scenario is replaced when it has run longer than its
\* duration.
Expired(sim, current_time) ==
  current_time - sim.scenario_start_time > sim.scenario_duration

\* The random draws one _calculate_temperature call depends on: the scenario
\* of _select_scenario and the new duration when the scenario has run out,
\* and then either a malfunction, which random.random() allows when the
\* chance of the scenario is above zero, with its temperature, or the drift
\* and the noise.
ScenarioDraws(sim, current_time) ==
  IF Expired(sim, current_time)
    THEN [scenario : DOMAIN scenarios, duration : Durations]
  ELSE {[scenario |-> sim.current_scenario, duration |-> sim.scenario_duration]}

TemperatureDraws(scenario) ==
  [malfunction : {FALSE}, drift : DriftDraws, noise : NoiseDraws,
   malfunction_temp : {0}]
  \cup IF scenarios[scenario].malfunction_chance.num > 0
         THEN [malfunction : {TRUE}, drift : {0}, noise : {0},
               malfunction_temp : MalfunctionTemps]
       ELSE {}

DrawsOf(s) ==
  {[scenario |-> s.scenario, duration |-> s.duration,
    malfunction |-> d.malfunction, drift |-> d.drift, noise |-> d.noise,
    malfunction_temp |-> d.malfunction_temp] :
     d \in TemperatureDraws(s.scenario)}

Draws(sim, current_time) ==
  UNION {DrawsOf(s) : s \in ScenarioDraws(sim, current_time)}

NextScenario(sim, current_time, draw) ==
  IF Expired(sim, current_time)
    THEN [sim EXCEPT !.current_scenario = draw.scenario,
                     !.scenario_start_time = current_time,
                     !.scenario_duration = draw.duration]
  ELSE sim

\* storage_locations.get(location_id, storage_locations['main_refrigerator']).
LocationOrDefault(location_id) ==
  IF location_id \in DOMAIN storage_locations
    THEN storage_locations[location_id]
  ELSE storage_locations["main_refrigerator"]

\* Lines 96-109: base_temp + time_factor + temp_drift + noise, smoothed with
\* last_temp.
RawTemperature(location, scenario, current_time, draw) ==
  Fixed(location.base_temp)
    + Mul(sin(current_time, CycleSeconds), Fixed(Ratio(3, 10)))
    + draw.drift * Fixed(scenario.temp_drift)
    + draw.noise * Fixed(Ratio(2, 10))

Smoothed(last_temp, new_temp) == RDiv(7 * last_temp + 3 * new_temp, 10)

\* Lines 112-115: a draw below malfunction_chance replaces the temperature.
NewTemperature(sim, location, current_time, draw) ==
  IF draw.malfunction
    THEN draw.malfunction_temp
  ELSE Smoothed(sim.last_temp,
                RawTemperature(location, scenarios[sim.current_scenario],
                               current_time, draw))

\* _calculate_temperature at time current_time: the simulator it leaves and
\* the temperature it returns.
Calculated(sim, location_id, current_time, draw) ==
  [sim |-> [sim EXCEPT !.last_temp =
                         NewTemperature(sim, LocationOrDefault(location_id),
                                        current_time, draw)],
   temperature |-> round1(NewTemperature(sim, LocationOrDefault(location_id),
                                         current_time, draw))]

calculate_temperature(sim, location_id, current_time, draw) ==
  Calculated(NextScenario(sim, current_time, draw), location_id, current_time, draw)

\* The status with the upper limit of the safe range left out of it.
status_below(temperature) ==
  IF safe_min <= temperature /\ temperature < safe_max THEN "safe"
  ELSE IF \/ safe_min - Scale <= temperature /\ temperature < safe_min
          \/ safe_max < temperature /\ temperature <= safe_max + Scale
    THEN "warning"
  ELSE "unsafe"

\* Lines 129-140 and 185-190: the status of a temperature.
status_of(temperature) ==
  IF safe_min <= temperature /\ temperature <= safe_max THEN "safe"
  ELSE IF \/ safe_min - Scale <= temperature /\ temperature < safe_min
          \/ safe_max < temperature /\ temperature <= safe_max + Scale
    THEN "warning"
  ELSE "unsafe"

status_text_of(status) ==
  IF status = "safe" THEN "SAFE" ELSE IF status = "warning" THEN "WARNING" ELSE "CRITICAL"

\* current_scenario.replace('_', ' ').title().
title(scenario) ==
  IF scenario = "normal" THEN "Normal"
  ELSE IF scenario = "cooling_failure" THEN "Cooling Failure"
  ELSE "Other"

\* Lines 148-166: the dict get_current_reading returns for a location of
\* storage_locations.
reading(sim, location_id, temperature) ==
  [location_id |-> location_id,
   location_name |-> storage_locations[location_id].name,
   temperature |-> temperature,
   status |-> status_of(temperature),
   status_text |-> status_text_of(status_of(temperature)),
   current_scenario |-> title(sim.current_scenario)]

\* Lines 217-260 of get_system_summary, for the readings of all locations.
CountStatus(all_readings, status) ==
  Cardinality({i \in 1..Len(all_readings) : all_readings[i].status = status})

system_summary(all_readings) ==
  [total_locations |-> Len(all_readings),
   safe_count |-> CountStatus(all_readings, "safe"),
   warning_count |-> CountStatus(all_readings, "warning"),
   unsafe_count |-> CountStatus(all_readings, "unsafe"),
   active_alerts |-> CountStatus(all_readings, "unsafe")
                       + CountStatus(all_readings, "warning")]

\* storage_locations.keys(), in the order of the dict.
location_keys == <<"main_refrigerator", "transport_cooler">>

\* The requests made of the simulator: the view or method, with the location,
\* the scenario and the hours it is given.
SimLocations == {"main_refrigerator", UnknownLocation}

SimCalls ==
  [method : {"ajax_temperature_update", "api_current_temperature"},
   location_id : SimLocations, scenario : {""}, hours : {0}]
  \cup [method : {"simulate_scenario"}, location_id : SimLocations,
        scenario : DOMAIN scenarios \cup {InvalidScenario}, hours : {0}]
  \cup [method : {"ajax_historical_data"}, location_id : SimLocations,
        scenario : {""}, hours : 0..MaxHours]
  \cup [method : {"get_system_summary"}, location_id : {""},
        scenario : {""}, hours : {0}]

\* The locals of a request in progress.
SimLocals ==
  [location_id |-> "", temperature |-> 0, all_locations |-> <<>>,
   keys |-> <<>>, historical_data |-> <<>>, i |-> 0,
   original_temp |-> 0, original_scenario |-> ""]

\* Where each request starts.
EntryLine(method) ==
  IF method \in {"ajax_temperature_update"} THEN "line125"
  ELSE IF method = "api_current_temperature" THEN "line246"
  ELSE IF method = "simulate_scenario" THEN "line343"
  ELSE IF method = "ajax_historical_data" THEN "line174"
  ELSE "line209"

\* What every step of a request leaves alone.
SimFrame == <<forecasting, objects, today>>

Return(t, result) ==
  /\ ret' = [ret EXCEPT ![t] = result]
  /\ pc' = [pc EXCEPT ![t] = "idle"]

Goto(t, line) ==
  /\ pc' = [pc EXCEPT ![t] = line]
  /\ UNCHANGED ret

\* A request arrives; op[t] records it with the simulator it found.
SimCall(t, call) ==
  /\ pc[t] = "idle"
  /\ op' = [op EXCEPT ![t] =
              [method |-> call.method, location_id |-> call.location_id,
               scenario |-> call.scenario, hours |-> call.hours,
               found |-> temperature_simulator]]
  /\ ret' = [ret EXCEPT ![t] = NoReturn]
  /\ frame' = [frame EXCEPT ![t] =
                 [SimLocals EXCEPT !.location_id = call.location_id,
                                   !.keys = location_keys]]
  /\ pc' = [pc EXCEPT ![t] = EntryLine(call.method)]
  /\ UNCHANGED <<temperature_simulator, clock, SimFrame>>

\* api_current_temperature, lines 246-249: an unknown location is answered
\* with 404 before the simulator is asked.
LocationNotFound(t) ==
  /\ pc[t] = "line246"
  /\ op[t].location_id \notin DOMAIN storage_locations
  /\ Return(t, [status |-> 404, error |-> "Location not found"])
  /\ UNCHANGED <<op, frame, temperature_simulator, clock, SimFrame>>

LocationFound(t) ==
  /\ pc[t] = "line246"
  /\ op[t].location_id \in DOMAIN storage_locations
  /\ Goto(t, "line125")
  /\ UNCHANGED <<op, frame, temperature_simulator, clock, SimFrame>>

\* simulate_scenario, lines 343-347: a scenario that is not one of the
\* scenarios is answered with 400.
ScenarioRejected(t) ==
  /\ pc[t] = "line343"
  /\ op[t].scenario \notin DOMAIN scenarios
  /\ Return(t, [status |-> 400, error |-> "Invalid scenario"])
  /\ UNCHANGED <<op, frame, temperature_simulator, clock, SimFrame>>

\* simulate_scenario, lines 350-351: the scenario is forced and its start
\* is set to time.time().
ForceScenario(t) ==
  /\ pc[t] = "line343"
  /\ op[t].scenario \in DOMAIN scenarios
  /\ clock < MaxClock
  /\ clock' = clock + 1
  /\ temperature_simulator' =
       [temperature_simulator EXCEPT !.current_scenario = op[t].scenario,
                                     !.scenario_start_time = clock + 1]
  /\ Goto(t, "line125")
  /\ UNCHANGED <<op, frame, SimFrame>>

\* get_current_reading, line 125: _calculate_temperature for the location.
\* Each reading of time.time() is one second later than the last.
CalculateTemperature(t) ==
  /\ pc[t] = "line125"
  /\ clock < MaxClock
  /\ clock' = clock + 1
  /\ \E draw \in Draws(temperature_simulator, clock + 1) :
       LET r == calculate_temperature(temperature_simulator,
                                      frame[t].location_id, clock + 1, draw)
       IN /\ temperature_simulator' = r.sim
          /\ frame' = [frame EXCEPT ![t].temperature = r.temperature]
  /\ Goto(t, "line126")
  /\ UNCHANGED <<op, SimFrame>>

\* get_current_reading, line 126: storage_locations[location_id] raises
\* KeyError for an unknown location; ajax_temperature_update and
\* api_current_temperature catch it and answer 500, and out of
\* simulate_scenario it is a 500 of the server.
ReadingFails(t) ==
  /\ pc[t] = "line126"
  /\ frame[t].location_id \notin DOMAIN storage_locations
  /\ Return(t, [status |-> 500, error |-> "KeyError"])
  /\ UNCHANGED <<op, frame, temperature_simulator, clock, SimFrame>>

\* get_current_reading, lines 129-163, and what its caller does with the
\* reading: the views answer with it, get_all_locations_status appends it.
ReadingReturns(t) ==
  LET current_reading == reading(temperature_simulator, frame[t].location_id,
                                 frame[t].temperature)
  IN /\ pc[t] = "line126"
     /\ frame[t].location_id \in DOMAIN storage_locations
     /\ IF op[t].method = "get_system_summary"
          THEN /\ frame' = [frame EXCEPT ![t].all_locations =
                              Append(@, current_reading)]
               /\ Goto(t, "line209")
        ELSE /\ Return(t, [status |-> 200, current_reading |-> current_reading])
             /\ UNCHANGED frame
     /\ UNCHANGED <<op, temperature_simulator, clock, SimFrame>>

\* get_all_locations_status, line 209: the next location of the loop.
NextLocation(t) ==
  /\ pc[t] = "line209"
  /\ frame[t].keys # <<>>
  /\ frame' = [frame EXCEPT ![t].location_id = Head(frame[t].keys),
                            ![t].keys = Tail(frame[t].keys)]
  /\ Goto(t, "line125")
  /\ UNCHANGED <<op, temperature_simulator, clock, SimFrame>>

\* get_system_summary, lines 219-260, once every location has been read.
SummaryReturns(t) ==
  /\ pc[t] = "line209"
  /\ frame[t].keys = <<>>
  /\ Return(t, [status |-> 200,
                system_summary |-> system_summary(frame[t].all_locations)])
  /\ UNCHANGED <<op, frame, temperature_simulator, clock, SimFrame>>

\* get_historical_data, lines 171-175: the intervals, and the two fields
\* of the simulator that are saved.
SaveState(t) ==
  /\ pc[t] = "line174"
  /\ frame' = [frame EXCEPT ![t].i = op[t].hours * 4,
                            ![t].original_temp = temperature_simulator.last_temp,
                            ![t].original_scenario =
                              temperature_simulator.current_scenario]
  /\ Goto(t, "line177")
  /\ UNCHANGED <<op, temperature_simulator, clock, SimFrame>>

\* get_historical_data, lines 177-197: one point of the history.
HistoryPoint(t) ==
  /\ pc[t] = "line177"
  /\ frame[t].i > 0
  /\ clock < MaxClock
  /\ clock' = clock + 1
  /\ \E draw \in Draws(temperature_simulator, clock + 1) :
       LET r == calculate_temperature(temperature_simulator,
                                      frame[t].location_id, clock + 1, draw)
       IN /\ temperature_simulator' = r.sim
          /\ frame' = [frame EXCEPT
                         ![t].i = @ - 1,
                         ![t].historical_data =
                           Append(@, [temperature |-> r.temperature,
                                      status |-> status_of(r.temperature)])]
  /\ Goto(t, "line177")
  /\ UNCHANGED <<op, SimFrame>>

\* get_historical_data, lines 200-203: last_temp and current_scenario are
\* put back and the history is returned.
RestoreState(t) ==
  /\ pc[t] = "line177"
  /\ frame[t].i = 0
  /\ temperature_simulator' =
       [temperature_simulator EXCEPT
          !.last_temp = frame[t].original_temp,
          !.current_scenario = frame[t].original_scenario]
  /\ Return(t, [status |-> 200, data |-> frame[t].historical_data])
  /\ UNCHANGED <<op, frame, clock, SimFrame>>

SimStep(t) ==
  \/ \E call \in SimCalls : SimCall(t, call)
  \/ LocationNotFound(t)
  \/ LocationFound(t)
  \/ ScenarioRejected(t)
  \/ ForceScenario(t)
  \/ CalculateTemperature(t)
  \/ ReadingFails(t)
  \/ ReadingReturns(t)
  \/ NextLocation(t)
  \/ SummaryReturns(t)
  \/ SaveState(t)
  \/ HistoryPoint(t)
  \/ RestoreState(t)

\* The module is imported at time `now`: temperature_simulator is a new
\* ColdChainSimulator (lines 355-356) and no request is in progress.
InitSimAt(now) ==
  /\ drugs_data = <<>>
  /\ scaler = NewScaler
  /\ model = NewModel
  /\ first = NoFirst
  /\ request = NoRequest
  /\ response = NoResponse
  /\ op = [t \in Callers |-> NoOp]
  /\ ret = [t \in Callers |-> NoReturn]
  /\ pc = [t \in Callers |-> "idle"]
  /\ frame = [t \in Callers |-> SimLocals]
  /\ clock = now
  /\ \E duration \in Durations :
       temperature_simulator = NewSimulator(now, duration)
  /\ objects = {}
  /\ today = 0

\* One request at a time.
InitSim == InitSimAt(0)

NextSim == SimStep(1)

SpecSim == InitSim /\ [][NextSim]_vars

\* Two requests at a time, in any interleaving of their steps, over the
\* last ConcReads readings of the clock: simulate_scenario, readings and
\* histories of the main refrigerator.
ConcReads == 3

ConcCalls ==
  {call \in SimCalls :
     /\ call.method \in {"simulate_scenario", "ajax_temperature_update",
                         "ajax_historical_data"}
     /\ call.location_id = "main_refrigerator"}

InitSimConc == InitSimAt(MaxClock - ConcReads)

ConcStep(t) ==
  \/ \E call \in ConcCalls : SimCall(t, call)
  \/ ScenarioRejected(t)
  \/ ForceScenario(t)
  \/ CalculateTemperature(t)
  \/ ReadingReturns(t)
  \/ SaveState(t)
  \/ HistoryPoint(t)
  \/ RestoreState(t)

NextSimConc == \E t \in Callers : ConcStep(t)

SpecSimConc == InitSimConc /\ [][NextSimConc]_vars

\* ------------------------------------------------------------ the inventory
\* inventory: the DrugBatch table and the views over it. A string is the
\* sequence of its characters; a date is a day number; objects is the set
\* of the rows of the table and today is timezone.now().date().

\* The bounds: the rows the table can hold and the last day of the clock.
MaxBatches == 2

MaxToday == 2

\* The days of "Expiring Soon" and of "Warning".
SoonDays == 30

WarningDays == 90

\* str.upper() and str.strip() over the characters of the model.
upper(text) ==
  Tuple([i \in 1..Len(text) |-> IF text[i] = "b" THEN "B" ELSE text[i]])

RECURSIVE lstrip(_)
lstrip(text) ==
  IF text # <<>> /\ Head(text) = " " THEN lstrip(Tail(text)) ELSE text

RECURSIVE rstrip(_)
rstrip(text) ==
  IF text # <<>> /\ text[Len(text)] = " "
    THEN rstrip(SubSeq(text, 1, Len(text) - 1))
  ELSE text

strip(text) == rstrip(lstrip(text))

\* text.split(sep): the pieces of text between the separators.
RECURSIVE split(_, _)
split(text, sep) ==
  IF \A i \in 1..Len(text) : text[i] # sep THEN <<text>>
  ELSE LET k == CHOOSE i \in 1..Len(text) :
                  text[i] = sep /\ \A j \in 1..(i - 1) : text[j] # sep
       IN <<SubSeq(text, 1, k - 1)>> \o split(SubSeq(text, k + 1, Len(text)), sep)

\* str(date): the three digits of the day number.
isoformat(day) ==
  <<DigitChars[((day \div 100) % 10) + 1], DigitChars[((day \div 10) % 10) + 1],
    DigitChars[(day % 10) + 1]>>

\* batch_number__iexact: equal when the case of the letters is ignored.
iexact(a, b) == upper(a) = upper(b)

\* The properties of a DrugBatch on the day `day`.
is_expired(batch, day) == batch.expiry_date < day

days_to_expiry(batch, day) ==
  IF batch.expiry_date - day > 0 THEN batch.expiry_date - day ELSE 0

expiry_status(batch, day) ==
  IF days_to_expiry(batch, day) <= 0 THEN "Expired"
  ELSE IF days_to_expiry(batch, day) <= SoonDays THEN "Expiring Soon"
  ELSE IF days_to_expiry(batch, day) <= WarningDays THEN "Warning"
  ELSE "Good"

qr_data(batch) ==
  batch.batch_number \o <<"|">> \o batch.name \o <<"|">>
    \o isoformat(batch.expiry_date)

\* No QR code, and the QR code generate_qr_code saves: an image of `text`.
NoQR == [none |-> TRUE]

generate_qr_code(text) == [text |-> text]

\* DrugBatch.save, lines 31-35: the QR code is generated when the batch has
\* none, and stays None when generate_qr_code fails.
qr_code_on_save(batch, generated) ==
  IF batch.qr_code = NoQR
    THEN IF generated THEN generate_qr_code(qr_data(batch)) ELSE NoQR
  ELSE batch.qr_code

save(batch, generated) ==
  [batch EXCEPT !.qr_code = qr_code_on_save(batch, generated)]

\* A table without the index.
no_index(rows, batch) == TRUE

\* The unique index of batch_number: no other row has the same number.
unique_index(rows, batch) ==
  \A other \in rows :
    other.id # batch.id => other.batch_number # batch.batch_number

\* super().save(): the row of this id is written, when the unique index
\* allows it.
written(rows, batch) == {other \in rows : other.id # batch.id} \cup {batch}

\* uuid.uuid4(): an id that is not in use.
uuid4(used) == CHOOSE id \in 1..(Cardinality(used) + 1) : id \notin used

\* verify_qr_data.
verify_qr_data(text) ==
  IF Len(split(text, "|")) >= 3
    THEN [batch_number |-> split(text, "|")[1],
          drug_name |-> split(text, "|")[2],
          expiry_date |-> split(text, "|")[3],
          is_valid |-> TRUE]
  ELSE [is_valid |-> FALSE, error |-> "Invalid QR code format"]

\* DrugBatchSerializer: the fields of a batch and its properties.
serialized(batch, day) ==
  [id |-> batch.id, name |-> batch.name, batch_number |-> batch.batch_number,
   expiry_date |-> batch.expiry_date, qr_data |-> qr_data(batch),
   expiry_status |-> expiry_status(batch, day),
   days_to_expiry |-> days_to_expiry(batch, day),
   is_expired |-> is_expired(batch, day)]

\* DrugBatch.objects.get(batch_number__iexact=number): the rows it matches.
matching(rows, number) ==
  {batch \in rows : iexact(batch.batch_number, number)}

\* inventory_stats_api, lines 194-227.
by_expiry_status(rows, day) ==
  [good |-> Cardinality({b \in rows : b.expiry_date > day + WarningDays}),
   warning |-> Cardinality({b \in rows : /\ b.expiry_date <= day + WarningDays
                                         /\ b.expiry_date > day + SoonDays}),
   expiring_soon |-> Cardinality({b \in rows : /\ b.expiry_date <= day + SoonDays
                                               /\ b.expiry_date >= day}),
   expired |-> Cardinality({b \in rows : b.expiry_date < day})]

\* The names, batch numbers and expiry dates the requests carry.
BatchNames == {<<"A">>, <<"A", "|", "C">>}

BatchNumbers == {<<"b">>, <<"B">>, <<"B", "|", "1">>}

ExpiryDates == {1, WarningDays + 1}

BatchIds == 1..MaxBatches

\* A QR text without a separator.
NoSeparator == <<"B">>

\* What every step of an inventory request leaves alone.
InvFrame == <<forecasting, temperature_simulator, clock>>

NoBatch == [none |-> TRUE]

\* The requests that create a batch and have not finished.
Creating(t) ==
  pc[t] # "idle" /\ op[t].method \in {"add_batch", "api_create"}

\* A POST of the add_batch form or of DrugBatchListCreateAPIView arrives.
\* The table holds at most MaxBatches rows.
CreateCall(t, method, name, batch_number, expiry_date) ==
  /\ pc[t] = "idle"
  /\ Cardinality(objects) + Cardinality({u \in Callers : Creating(u)}) < MaxBatches
  /\ op' = [op EXCEPT ![t] = [method |-> method, name |-> name,
                              batch_number |-> batch_number,
                              expiry_date |-> expiry_date]]
  /\ ret' = [ret EXCEPT ![t] = NoReturn]
  /\ frame' = [frame EXCEPT ![t] = [batch |-> NoBatch]]
  /\ pc' = [pc EXCEPT ![t] = "is_valid"]
  /\ UNCHANGED <<objects, today, InvFrame>>

\* A PATCH of one field of the batch `id` arrives at DrugBatchDetailAPIView;
\* get_object answers 404 when there is no such batch.
UpdateCall(t, id, field, value) ==
  /\ pc[t] = "idle"
  /\ op' = [op EXCEPT ![t] = [method |-> "api_update", id |-> id,
                              field |-> field, value |-> value]]
  /\ IF \E batch \in objects : batch.id = id
       THEN /\ ret' = [ret EXCEPT ![t] = NoReturn]
            /\ frame' = [frame EXCEPT ![t] =
                           [batch |-> CHOOSE batch \in objects : batch.id = id]]
            /\ pc' = [pc EXCEPT ![t] = "is_valid"]
     ELSE /\ ret' = [ret EXCEPT ![t] = [status |-> 404]]
          /\ frame' = [frame EXCEPT ![t] = [batch |-> NoBatch]]
          /\ UNCHANGED pc
  /\ UNCHANGED <<objects, today, InvFrame>>

\* clean_batch_number and validate_batch_number: the number is stripped and
\* put in upper case, and refused when a row other than the instance has it.
cleaned_number(batch_number) == upper(strip(batch_number))

number_exists(rows, number, instance) ==
  \E other \in rows :
    /\ other.batch_number = number
    /\ instance # NoBatch => other.id # instance.id

\* form.is_valid() of add_batch: a blank field, a number that exists and an
\* expiry date that is not in the future are errors.
FormIsValid(t) ==
  /\ pc[t] = "is_valid"
  /\ op[t].method = "add_batch"
  /\ IF \/ strip(op[t].name) = <<>>
        \/ strip(op[t].batch_number) = <<>>
        \/ number_exists(objects, cleaned_number(op[t].batch_number), NoBatch)
        \/ op[t].expiry_date <= today
       THEN /\ Return(t, [status |-> 200, saved |-> FALSE])
            /\ UNCHANGED frame
     ELSE /\ frame' = [frame EXCEPT ![t] =
                         [batch |-> [id |-> 0, name |-> strip(op[t].name),
                                     batch_number |-> cleaned_number(op[t].batch_number),
                                     expiry_date |-> op[t].expiry_date,
                                     qr_code |-> NoQR]]]
          /\ Goto(t, "save")
  /\ UNCHANGED <<op, objects, today, InvFrame>>

\* serializer.is_valid() of the create view.
SerializerIsValid(t) ==
  /\ pc[t] = "is_valid"
  /\ op[t].method = "api_create"
  /\ IF \/ strip(op[t].name) = <<>>
        \/ strip(op[t].batch_number) = <<>>
        \/ number_exists(objects, cleaned_number(op[t].batch_number), NoBatch)
       THEN /\ Return(t, [status |-> 400])
            /\ UNCHANGED frame
     ELSE /\ frame' = [frame EXCEPT ![t] =
                         [batch |-> [id |-> 0, name |-> strip(op[t].name),
                                     batch_number |-> cleaned_number(op[t].batch_number),
                                     expiry_date |-> op[t].expiry_date,
                                     qr_code |-> NoQR]]]
          /\ Goto(t, "save")
  /\ UNCHANGED <<op, objects, today, InvFrame>>

\* serializer.is_valid() of a PATCH, and the field it sets on the instance.
Patched(batch, field, value) ==
  IF field = "name" THEN [batch EXCEPT !.name = strip(value)]
  ELSE IF field = "batch_number"
    THEN [batch EXCEPT !.batch_number = cleaned_number(value)]
  ELSE [batch EXCEPT !.expiry_date = value]

UpdateIsValid(t) ==
  /\ pc[t] = "is_valid"
  /\ op[t].method = "api_update"
  /\ IF /\ op[t].field = "batch_number"
        /\ number_exists(objects, cleaned_number(op[t].value), frame[t].batch)
       THEN /\ Return(t, [status |-> 400])
            /\ UNCHANGED frame
     ELSE /\ frame' = [frame EXCEPT ![t].batch =
                         Patched(@, op[t].field, op[t].value)]
          /\ Goto(t, "save")
  /\ UNCHANGED <<op, objects, today, InvFrame>>

\* DrugBatch.save of the validated batch: a new batch gets its id, the QR
\* code is generated when there is none, and the row is written unless the
\* unique index refuses it (IntegrityError).
UsedIds ==
  {batch.id : batch \in objects}
    \cup {frame[u].batch.id :
            u \in {v \in Callers : pc[v] # "idle" /\ frame[v].batch # NoBatch}}

Saved(rows, batch, generated) ==
  save(IF batch.id = 0 THEN [batch EXCEPT !.id = uuid4(UsedIds)] ELSE batch,
       generated)

Save(t) ==
  /\ pc[t] = "save"
  /\ \E generated \in BOOLEAN :
       /\ generated \/ frame[t].batch.qr_code = NoQR
       /\ IF unique_index(objects, Saved(objects, frame[t].batch, generated))
            THEN /\ objects' = written(objects,
                                       Saved(objects, frame[t].batch, generated))
                 /\ Return(t, [status |-> IF op[t].method = "add_batch" THEN 302
                                          ELSE IF op[t].method = "api_create"
                                            THEN 201
                                          ELSE 200,
                               id |-> Saved(objects, frame[t].batch, generated).id])
          ELSE /\ UNCHANGED objects
               /\ Return(t, [status |-> IF op[t].method = "add_batch" THEN 200
                                        ELSE 500,
                             saved |-> FALSE])
  /\ UNCHANGED <<op, frame, today, InvFrame>>

\* The requests of one step: from its arrival to its response nothing else
\* runs.
Answer(t, call, result) ==
  /\ pc[t] = "idle"
  /\ op' = [op EXCEPT ![t] = call]
  /\ ret' = [ret EXCEPT ![t] = result]
  /\ UNCHANGED <<pc, frame, today, InvFrame>>

\* GET of DrugBatchDetailAPIView.
Retrieve(t, id) ==
  /\ Answer(t, [method |-> "api_retrieve", id |-> id],
            IF \E batch \in objects : batch.id = id
              THEN [status |-> 200,
                    batch |-> serialized(CHOOSE batch \in objects : batch.id = id,
                                         today)]
            ELSE [status |-> 404])
  /\ UNCHANGED objects

\* DELETE of DrugBatchDetailAPIView.
Destroy(t, id) ==
  /\ Answer(t, [method |-> "api_destroy", id |-> id],
            IF \E batch \in objects : batch.id = id
              THEN [status |-> 204] ELSE [status |-> 404])
  /\ objects' = {batch \in objects : batch.id # id}

\* verify_qr_api.
verify_qr_api(rows, text, day) ==
  IF \A i \in 1..Len(text) : text[i] # "|" THEN [status |-> 400]
  ELSE IF ~verify_qr_data(text).is_valid THEN [status |-> 200, valid |-> FALSE]
  ELSE IF matching(rows, verify_qr_data(text).batch_number) = {}
    THEN [status |-> 200, valid |-> FALSE,
          parsed_qr_data |-> verify_qr_data(text)]
  ELSE IF Cardinality(matching(rows, verify_qr_data(text).batch_number)) > 1
    THEN [status |-> 500]
  ELSE [status |-> 200, valid |-> TRUE,
        parsed_qr_data |-> verify_qr_data(text),
        batch |-> serialized(
                    CHOOSE batch \in
                      matching(rows, verify_qr_data(text).batch_number) : TRUE,
                    day)]

VerifyQR(t, text) ==
  /\ Answer(t, [method |-> "verify_qr_api", qr_data |-> text],
            verify_qr_api(objects, strip(text), today))
  /\ UNCHANGED objects

\* inventory_stats_api.
InventoryStats(t) ==
  /\ Answer(t, [method |-> "inventory_stats_api"],
            [status |-> 200, total_batches |-> Cardinality(objects),
             by_expiry_status |-> by_expiry_status(objects, today)])
  /\ UNCHANGED objects

\* Midnight: timezone.now().date() is the next day.
NextDay ==
  /\ today < MaxToday
  /\ today' = today + 1
  /\ UNCHANGED <<op, ret, pc, frame, objects, InvFrame>>

\* The QR texts sent for verification: the data of a stored batch, the text
\* of a stored QR code, or a text without a separator.
ScannedTexts ==
  {qr_data(batch) : batch \in objects}
    \cup {batch.qr_code.text : batch \in {b \in objects : b.qr_code # NoQR}}
    \cup {NoSeparator}

InvStep(t) ==
  \/ \E method \in {"add_batch", "api_create"}, name \in BatchNames,
        batch_number \in BatchNumbers, expiry_date \in ExpiryDates :
       CreateCall(t, method, name, batch_number, expiry_date)
  \/ \E id \in BatchIds :
       \/ \E name \in BatchNames : UpdateCall(t, id, "name", name)
       \/ \E number \in BatchNumbers : UpdateCall(t, id, "batch_number", number)
       \/ \E date \in ExpiryDates : UpdateCall(t, id, "expiry_date", date)
       \/ Retrieve(t, id)
       \/ Destroy(t, id)
  \/ FormIsValid(t)
  \/ SerializerIsValid(t)
  \/ UpdateIsValid(t)
  \/ Save(t)
  \/ \E text \in ScannedTexts : VerifyQR(t, text)
  \/ InventoryStats(t)

\* An empty table on day 0, and no request in progress.
InitInventory ==
  /\ drugs_data = <<>>
  /\ scaler = NewScaler
  /\ model = NewModel
  /\ first = NoFirst
  /\ request = NoRequest
  /\ response = NoResponse
  /\ op = [t \in Callers |-> NoOp]
  /\ ret = [t \in Callers |-> NoReturn]
  /\ pc = [t \in Callers |-> "idle"]
  /\ frame = [t \in Callers |-> [batch |-> NoBatch]]
  /\ temperature_simulator = [none |-> TRUE]
  /\ clock = 0
  /\ objects = {}
  /\ today = 0

\* One request at a time, and the days passing.
NextInventory == InvStep(1) \/ NextDay

SpecInventory == InitInventory /\ [][NextInventory]_vars

\* Two requests at a time, in any interleaving of their steps: creations,
\* updates of the batch number and deletions.
ConcCreate(t) ==
  \/ \E method \in {"add_batch", "api_create"}, batch_number \in BatchNumbers :
       CreateCall(t, method, <<"A">>, batch_number, SoonDays)
  \/ \E id \in BatchIds :
       \/ \E number \in BatchNumbers : UpdateCall(t, id, "batch_number", number)
       \/ Destroy(t, id)
  \/ FormIsValid(t)
  \/ SerializerIsValid(t)
  \/ UpdateIsValid(t)
  \/ Save(t)

NextInventoryConc == \E t \in Callers : ConcCreate(t)

SpecInventoryConc == InitInventory /\ [][NextInventoryConc]_vars

\* ------------------------------------------------------------------- claims
\* A forecast_demand call of caller t has returned.
Returned(t) == pc[t] = "idle" /\ op[t].method = "forecast_demand"

\* A returned dict carries a forecast.


\* The dates the dataset holds for a drug.
HistoryDates(drug) ==
  {drugs_data[i].date : i \in {k \in 1..Len(drugs_data) :
                                 drugs_data[k].drug_name = drug}}

LatestDate(drug) ==
  CHOOSE d \in HistoryDates(drug) : \A e \in HistoryDates(drug) : e <= d

\* C1: for a drug with history and a horizon h >= 1, forecast_demand returns
\* h forecast dates: the first is the day after the drug's latest historical
\* date and each next one is one day later.
C1_ForecastDates ==
  \A t \in Callers :
    (Returned(t) /\ HistoryDates(op[t].drug_name) # {}) =>
      /\ IsForecast(ret[t])
      /\ Len(ret[t].forecast_dates) = op[t].n
      /\ ret[t].forecast_dates[1] = LatestDate(op[t].drug_name) + 1
      /\ \A i \in 2..op[t].n :
           ret[t].forecast_dates[i] = ret[t].forecast_dates[i - 1] + 1

C1_Witness ==
  /\ Returned(1)
  /\ op[1].n = MaxHorizon
  /\ IsForecast(ret[1])
  /\ Len(ret[1].forecast_dates) = MaxHorizon
  /\ ret[1].forecast_dates[MaxHorizon] = LatestDate(op[1].drug_name) + MaxHorizon

\* C2: in every forecast returned, the values and both bounds are as many
\* as the dates, and 0 <= confidence_lower[i] <= forecast_values[i] <=
\* confidence_upper[i] at every index.
C2_BandOrder ==
  \A t \in Callers :
    (Returned(t) /\ IsForecast(ret[t])) =>
      /\ Len(ret[t].forecast_values) = Len(ret[t].forecast_dates)
      /\ Len(ret[t].confidence_lower) = Len(ret[t].forecast_dates)
      /\ Len(ret[t].confidence_upper) = Len(ret[t].forecast_dates)
      /\ \A i \in 1..Len(ret[t].forecast_dates) :
           /\ 0 <= ret[t].confidence_lower[i]
           /\ ret[t].confidence_lower[i] <= ret[t].forecast_values[i]
           /\ ret[t].forecast_values[i] <= ret[t].confidence_upper[i]

\* A forecast whose band is open on both sides at one date, and clamped at 0
\* at another.
C2_Witness ==
  /\ Returned(1)
  /\ IsForecast(ret[1])
  /\ \E i \in 1..Len(ret[1].forecast_values) :
       /\ 0 < ret[1].confidence_lower[i]
       /\ ret[1].confidence_lower[i] < ret[1].forecast_values[i]
       /\ ret[1].forecast_values[i] < ret[1].confidence_upper[i]
  /\ \E i \in 1..Len(ret[1].forecast_values) :
       /\ ret[1].forecast_values[i] = 0
       /\ ret[1].confidence_upper[i] > 0

\* C4: a forecast_demand call leaves the forecaster's scaler, model and
\* dataset as they were before the call.
C4_NoSideEffect ==
  [][op'[1].method = "forecast_demand" =>
       (scaler' = scaler /\ model' = model /\ drugs_data' = drugs_data)]_vars

\* C5: a forecast_demand call with the drug and horizon of the first call of
\* the behaviour returns the forecast values and bounds that call returned,
\* whatever calls were made in between.
C5_SameForecast ==
  (/\ Returned(1)
   /\ op[1].drug_name = first.drug_name
   /\ op[1].n = first.forecast_days
   /\ IsForecast(first.ret)) =>
     /\ IsForecast(ret[1])
     /\ ret[1].forecast_values = first.ret.forecast_values
     /\ ret[1].confidence_lower = first.ret.confidence_lower
     /\ ret[1].confidence_upper = first.ret.confidence_upper

\* The first call repeated after a call that left other weights in the
\* model.
C5_Witness ==
  /\ Returned(1)
  /\ op[1].drug_name = first.drug_name
  /\ op[1].n = first.forecast_days
  /\ first.others
  /\ IsForecast(ret[1])
  /\ \E d \in Drugs :
       model # FittedModel(LinearRegressionFit(
                  Features(Dates(get_historical_data(drugs_data, d)), 0),
                  Demands(get_historical_data(drugs_data, d))))

\* C8: forecast_demand for a name with no rows returns a dict that holds
\* the error and no forecast field, and leaves the scaler and the model as
\* they were.
C8_EmptySeries ==
  [][(op'[1].method = "forecast_demand" /\ HistoryDates(op'[1].drug_name) = {}) =>
       (/\ DOMAIN ret'[1] = {"error"}
        /\ scaler' = scaler
        /\ model' = model)]_vars

\* Such a call has returned on a forecaster whose scaler and model an
\* earlier call had fitted.
C8_Witness ==
  /\ Returned(1)
  /\ HistoryDates(op[1].drug_name) = {}
  /\ IsError(ret[1])
  /\ scaler.fitted
  /\ model.fitted

\* The feature matrix of a drug's history, and whether its centred columns
\* are linearly dependent.
HistoryFeatures(drug) ==
  Features(Dates(sort_values(get_historical_data(drugs_data, drug))),
           MinSeq(Dates(get_historical_data(drugs_data, drug))))

RankDeficient(X) == Cardinality(Basis(Gram(X))) < NumFeatures

\* C9: forecast_demand on a history whose feature matrix is rank-deficient
\* (a single date, or no weekend date) returns a model-fit error and not a
\* forecast.
C9_RankDeficientError ==
  (/\ Returned(1)
   /\ HistoryDates(op[1].drug_name) # {}
   /\ RankDeficient(HistoryFeatures(op[1].drug_name))) =>
     IsError(ret[1])

\* C10: forecast_demand on a history whose demand is the constant c returns
\* forecast values all equal to c, both bounds equal to the values, and a
\* model score of 0.
C10_ConstantSeries ==
  \A c \in 0..MaxDemand :
    (/\ Returned(1)
     /\ HistoryDates(op[1].drug_name) # {}
     /\ \A r \in DOMAIN get_historical_data(drugs_data, op[1].drug_name) :
          get_historical_data(drugs_data, op[1].drug_name)[r].demand = c) =>
       /\ IsForecast(ret[1])
       /\ \A i \in DOMAIN ret[1].forecast_values :
            /\ ret[1].forecast_values[i] = c * Scale
            /\ ret[1].confidence_lower[i] = c * Scale
            /\ ret[1].confidence_upper[i] = c * Scale
       /\ ret[1].model_score = Float(0)

\* What the call caller t made returns on a forecaster no other call is
\* using.
Alone(t) ==
  forecast_demand(drugs_data, NewScaler, NewModel, op[t].drug_name, op[t].n).ret

\* C3: of two forecast_demand calls in progress at once on one forecaster,
\* each returns what it returns when it runs alone; neither predicts with
\* parameters fitted for the other's drug.
C3_IsolatedCalls ==
  \A t \in Callers : (Returned(t) /\ ret[t] # NoReturn) => ret[t] = Alone(t)

\* A response of `view` to the request in progress.
Answered(view) ==
  request # NoRequest /\ request.view = view /\ response # NoResponse

\* C6: api_forecast_data forecasts 90 days when no days parameter is given
\* and min(max(d, 7), 365) days for an integer days parameter d, so that
\* forecast_dates has between 7 and 365 entries.
C6_HorizonClamp ==
  (Answered("api_forecast_data") /\ response.status = 200) =>
     /\ ~request.days.given =>
          Len(response.body.data.forecast_dates) = 90
     /\ request.days.given =>
          Len(response.body.data.forecast_dates) =
            Min(Max(ParseInt(request.days.text).value, 7), 365)
     /\ Len(response.body.data.forecast_dates) >= 7
     /\ Len(response.body.data.forecast_dates) <= 365

\* A forecast was returned for days=366, a value above the limit.
C6_Witness ==
  /\ Answered("api_forecast_data")
  /\ response.status = 200
  /\ request.days = Given(<<"3", "6", "6">>)
  /\ Len(response.body.data.forecast_dates) = 365

\* The request in progress names a drug that is not in the dataset of the
\* forecaster that served it.
NamesUnknownDrug ==
  /\ drugs_data # <<>>
  /\ \/ request.drug.given /\ request.drug.text # ""
        /\ ~InList(unique(drugs_data), request.drug.text)
     \/ \E k \in DOMAIN request.drugs :
          ~InList(unique(drugs_data), request.drugs[k])

\* C7: every view that takes a drug name answers a name that is not in the
\* dataset with an explicit error: a not-found response or the error dict
\* as the forecast, never an unhandled exception.
C7_UnknownDrugError ==
  (/\ \E v \in {"api_forecast_data", "ajax_forecast_chart", "forecast_view",
                "export_forecast_data", "forecast_comparison"} : Answered(v)
   /\ NamesUnknownDrug) =>
     /\ "raised" \notin DOMAIN response
     /\ \/ response.status = 404
        \/ /\ "forecast_data" \in DOMAIN response.body
           /\ IsError(response.body.forecast_data)

\* The rows generated so far, by a generation in progress or over.
Generated == IF pc[1] = "line45" THEN frame[1].all_data ELSE drugs_data

\* The last pass of the inner loop has appended a row.
Appended == pc[1] = "line45" /\ frame[1].all_data # <<>>

LastRow == frame[1].all_data[Len(frame[1].all_data)]

\* C11: every demand _generate_dummy_data produces is an integer that is at
\* least 0, whatever the drug, the date and the noise factor, a negative
\* noise factor included.
C11_NonNegativeDemand ==
  \A i \in 1..Len(Generated) : Generated[i].demand \in Nat

\* A row generated from a negative noise factor, whose product is negative.
C11_Witness ==
  /\ Appended
  /\ frame[1].locals.noise_factor < 0
  /\ DemandProduct(frame[1].locals.base_demand, frame[1].locals.seasonal_factor,
                   frame[1].locals.trend_factor, frame[1].locals.noise_factor,
                   frame[1].locals.weekend_factor) < 0
  /\ LastRow.demand = 0

\* The rows of a finished generation for one drug and one day.
PointsOf(drug_name, date) ==
  {i \in 1..Len(drugs_data) :
     drugs_data[i].drug_name = drug_name /\ drugs_data[i].date = date}

\* C12: the generated dataset holds, for each configured drug, exactly one
\* point for every day from start_date to end_date, both included: no
\* (drug, date) pair twice, no day of the range missing, and nothing else.
C12_OnePointPerDay ==
  (pc[1] = "idle") =>
    /\ \A k \in 1..Len(drugs) : \A date \in (op[1].n - GenDays)..op[1].n :
         Cardinality(PointsOf(drugs[k].drug_name, date)) = 1
    /\ Len(drugs_data) = Len(drugs) * (GenDays + 1)

\* A finished generation.
C12_Witness ==
  /\ pc[1] = "idle"
  /\ op[1].method = "_generate_dummy_data"
  /\ drugs_data # <<>>
  /\ drugs_data[Len(drugs_data)].date = op[1].n

\* C18: each generated demand is max(0, round(base_demand * seasonal_factor *
\* trend_factor * noise_factor * weekend_factor)), the product rounded to the
\* nearest integer, with a weekend_factor of 0.7 on Saturdays and Sundays
\* and of 1.0 on the other days.
C18_RoundedDemand ==
  Appended =>
    /\ LastRow.demand =
         Max(0, RoundHalfEven(DemandProduct(frame[1].locals.base_demand,
                                            frame[1].locals.seasonal_factor,
                                            frame[1].locals.trend_factor,
                                            frame[1].locals.noise_factor,
                                            frame[1].locals.weekend_factor),
                              Scale))
    /\ frame[1].locals.weekend_factor =
         (IF weekday(LastRow.date) \in {5, 6} THEN Fixed(Ratio(7, 10)) ELSE Scale)

\* Caller t is in forecast_demand past line 123, the transform of the
\* future rows.
PastFutureTransform(t) == pc[t] \in {"line126", "line130", "line135"}

\* C13: in forecast_demand the scaler parameters that transform the future
\* feature rows are the mean and standard deviation fitted on the historical
\* feature rows of the same call: the standardized future rows are the
\* future rows transformed with the fit of the call's own X, whatever
\* another caller did to the scaler between line 100 and line 123.
C13_FutureUsesOwnFit ==
  \A t \in Callers :
    PastFutureTransform(t) =>
      frame[t].X_future_scaled =
        StandardScalerTransform(StandardScalerFit(frame[t].X), frame[t].X_future)

\* Caller 1 has transformed its future rows and caller 2 has just refitted
\* the scaler.
C13_Witness ==
  /\ pc[1] = "line126"
  /\ pc[2] = "line103"
  /\ Len(frame[1].X) = ConcDays
  /\ Len(frame[1].X_future_scaled) = ConcHorizon
  /\ frame[1].drug_name # frame[2].drug_name

\* The days_since_start of the rows of a call: the historical rows in date
\* order, then the future rows.
Elapsed(t) ==
  Column(frame[t].X, 1) \o
    (IF frame[t].X_future = <<>> THEN <<>> ELSE Column(frame[t].X_future, 1))

Summarized == op[1].method = "get_summary_statistics"

\* The rows of a drug, and the month of the latest of a non-empty set of
\* rows.
History(drug) == get_historical_data(drugs_data, drug)

MonthOfLatest(rows, I) ==
  rows[CHOOSE i \in I : \A j \in I : rows[j].date <= rows[i].date].month

\* The rows of the chronologically last month of a history, and those of
\* the month before it.
LastMonthRows(rows) ==
  {i \in DOMAIN rows : rows[i].month = MonthOfLatest(rows, DOMAIN rows)}

SecondToLastMonthRows(rows) ==
  {i \in DOMAIN rows \ LastMonthRows(rows) :
     rows[i].month = MonthOfLatest(rows, DOMAIN rows \ LastMonthRows(rows))}

RECURSIVE DemandOver(_, _)
DemandOver(rows, I) ==
  IF I = {} THEN 0
  ELSE LET i == CHOOSE i \in I : TRUE
       IN rows[i].demand + DemandOver(rows, I \ {i})

\* The average v (in hundredths) is the mean of the rows I, exactly, and
\* to two decimal places.
IsMean(v, rows, I) == v * Cardinality(I) = DemandOver(rows, I) * Cent

IsRoundedMean(v, rows, I) ==
  v = RoundHalfEven(DemandOver(rows, I) * Cent, Cardinality(I))

SingleMonth(rows) == LastMonthRows(rows) = DOMAIN rows

\* C14 as stated: a history within one month reports previous_month_avg 0
\* and monthly_growth_rate 0; with two or more months recent_month_avg is
\* the mean of the last month and previous_month_avg the mean of the
\* second-to-last month.
C14_MonthAverages ==
  Summarized =>
    \A drug \in DOMAIN ret[1] :
      /\ SingleMonth(History(drug)) =>
           /\ ret[1][drug].previous_month_avg = 0
           /\ ret[1][drug].monthly_growth_rate = 0
      /\ ~SingleMonth(History(drug)) =>
           /\ IsMean(ret[1][drug].recent_month_avg, History(drug),
                     LastMonthRows(History(drug)))
           /\ IsMean(ret[1][drug].previous_month_avg, History(drug),
                     SecondToLastMonthRows(History(drug)))

\* C14 amended: the same, with each of the two averages rounded to two
\* decimal places.
C14_RoundedMonthAverages ==
  Summarized =>
    \A drug \in DOMAIN ret[1] :
      /\ SingleMonth(History(drug)) =>
           /\ ret[1][drug].previous_month_avg = 0
           /\ ret[1][drug].monthly_growth_rate = 0
           /\ IsRoundedMean(ret[1][drug].recent_month_avg, History(drug),
                            DOMAIN History(drug))
      /\ ~SingleMonth(History(drug)) =>
           /\ IsRoundedMean(ret[1][drug].recent_month_avg, History(drug),
                            LastMonthRows(History(drug)))
           /\ IsRoundedMean(ret[1][drug].previous_month_avg, History(drug),
                            SecondToLastMonthRows(History(drug)))

\* A summary of a history of three months whose first and second month
\* differ, and one of a single data point.
C14_Witness ==
  /\ Summarized
  /\ Cardinality(MonthKeys(History("Aspirin"))) = 3
  /\ ret[1]["Aspirin"].previous_month_avg = 75 * Cent
  /\ ret[1]["Aspirin"].recent_month_avg = 50 * Cent
  /\ History("Aspirin")[1].demand = 0

C14_WitnessSinglePoint ==
  /\ Summarized
  /\ Len(History("Aspirin")) = 1
  /\ ret[1]["Aspirin"].recent_month_avg = 75 * Cent

\* The history of a drug lies in two months with means of exactly 50 and 75,
\* in this order.
MeansFiftyThenSeventyFive(rows) ==
  /\ Cardinality(MonthKeys(rows)) = 2
  /\ IsMean(75 * Cent, rows, LastMonthRows(rows))
  /\ IsMean(50 * Cent, rows, SecondToLastMonthRows(rows))

\* C15 as stated: monthly_growth_rate is 0 whenever previous_month_avg is 0
\* and otherwise (recent_month_avg - previous_month_avg) / previous_month_avg
\* * 100; month means of 50 and 75 give a rate of 50.0.
C15_GrowthRate ==
  Summarized =>
    \A drug \in DOMAIN ret[1] :
      /\ ret[1][drug].previous_month_avg = 0 => ret[1][drug].monthly_growth_rate = 0
      /\ ret[1][drug].previous_month_avg # 0 =>
           ret[1][drug].monthly_growth_rate * ret[1][drug].previous_month_avg =
             (ret[1][drug].recent_month_avg - ret[1][drug].previous_month_avg)
               * 100 * Cent
      /\ MeansFiftyThenSeventyFive(History(drug)) =>
           ret[1][drug].monthly_growth_rate = 50 * Cent

\* C15 amended: the same, with the rate rounded to two decimal places.
C15_RoundedGrowthRate ==
  Summarized =>
    \A drug \in DOMAIN ret[1] :
      /\ ret[1][drug].previous_month_avg = 0 => ret[1][drug].monthly_growth_rate = 0
      /\ ret[1][drug].previous_month_avg # 0 =>
           ret[1][drug].monthly_growth_rate =
             RoundHalfEven((ret[1][drug].recent_month_avg
                              - ret[1][drug].previous_month_avg) * 100 * Cent,
                           ret[1][drug].previous_month_avg)
      /\ MeansFiftyThenSeventyFive(History(drug)) =>
           ret[1][drug].monthly_growth_rate = 50 * Cent

\* A summary of a two-month history with means 50 and 75, next to one whose
\* previous month has a mean of 0.
C15_Witness ==
  /\ Summarized
  /\ MeansFiftyThenSeventyFive(History("Aspirin"))
  /\ ret[1]["Aspirin"].monthly_growth_rate = 50 * Cent
  /\ ret[1]["Insulin"].previous_month_avg = 0
  /\ ret[1]["Insulin"].recent_month_avg > 0
  /\ ~SingleMonth(History("Insulin"))

\* get_top_drugs_by_demand has returned to caller 1.
Ranked == op[1].method = "get_top_drugs_by_demand"

\* The place of a drug name in alphabetical order.
NameIndex(name) == CHOOSE k \in DOMAIN Alphabetical : Alphabetical[k] = name

\* C16: get_top_drugs_by_demand(n) returns min(n, number of drugs) entries
\* with ranks 1, 2, ... in order, by total demand descending, and two drugs
\* with equal total demand are in ascending order of their names.
C16_RankedByDemand ==
  Ranked =>
    /\ Len(ret[1]) = Min(op[1].n, Cardinality(DOMAIN drug_totals(drugs_data)))
    /\ \A i \in 1..Len(ret[1]) :
         /\ ret[1][i].rank = i
         /\ ret[1][i].total_annual_demand = drug_totals(drugs_data)[ret[1][i].drug_name]
    /\ \A i \in 1..(Len(ret[1]) - 1) :
         /\ ret[1][i].total_annual_demand >= ret[1][i + 1].total_annual_demand
         /\ ret[1][i].total_annual_demand = ret[1][i + 1].total_annual_demand =>
              NameIndex(ret[1][i].drug_name) < NameIndex(ret[1][i + 1].drug_name)

\* The sum of the percentage_of_total of the entries from i on: NaN when one
\* of them is.
RECURSIVE PercentageSum(_, _)
PercentageSum(entries, i) ==
  IF i > Len(entries) THEN Float(0)
  ELSE IF entries[i].percentage_of_total.nan \/ PercentageSum(entries, i + 1).nan
    THEN NaN
  ELSE Float(entries[i].percentage_of_total.value
               + PercentageSum(entries, i + 1).value)

\* C17: for every dataset and every n the percentage_of_total values that
\* get_top_drugs_by_demand(n) returns sum to at most 100, and to 100 only
\* when n covers all drugs.
C17_PercentageSum ==
  Ranked =>
    /\ ~PercentageSum(ret[1], 1).nan
    /\ PercentageSum(ret[1], 1).value <= 100 * Cent
    /\ PercentageSum(ret[1], 1).value = 100 * Cent =>
         Len(ret[1]) = Cardinality(DOMAIN drug_totals(drugs_data))

C21_TopOfSameDataset ==
  (/\ Answered("forecast_comparison")
   /\ request.drugs = <<>>
   /\ response.status = 200) =>
     \E order \in Descending(drug_totals(drugs_data)) :
       response.body.selected_drugs = head(order, ComparisonTopN)

\* The requests of the simulator that have been answered.
HasAnswered(t, method) ==
  /\ op[t].method = method
  /\ pc[t] = "idle"
  /\ ret[t] # NoReturn

\* C22: when get_historical_data has returned and no other request has run,
\* last_temp, current_scenario, scenario_start_time and scenario_duration of
\* the simulator are what they were when it was called.
C22_StateRestored ==
  HasAnswered(1, "ajax_historical_data") =>
    /\ temperature_simulator.last_temp = op[1].found.last_temp
    /\ temperature_simulator.current_scenario = op[1].found.current_scenario
    /\ temperature_simulator.scenario_start_time = op[1].found.scenario_start_time
    /\ temperature_simulator.scenario_duration = op[1].found.scenario_duration

\* C23: a simulate_scenario request that accepts scenario s answers with a
\* reading whose current scenario is s, whatever the other request does in
\* between; one with an invalid scenario answers 400 and leaves the
\* simulator as it is.
Answers(t, method) ==
  /\ op[t].method = method
  /\ pc[t] # "idle"
  /\ pc'[t] = "idle"

C23_ScenarioStep ==
  \A t \in Callers :
    Answers(t, "simulate_scenario") =>
      IF op[t].scenario \in DOMAIN scenarios
        THEN ret'[t].status = 200 =>
               ret'[t].current_reading.current_scenario = title(op[t].scenario)
      ELSE /\ ret'[t].status = 400
           /\ temperature_simulator' = temperature_simulator

C23_ScenarioReported == [][C23_ScenarioStep]_vars

\* C24: a temperature request for a location that is not in
\* storage_locations, through api_current_temperature or through
\* ajax_temperature_update, is answered with an error and leaves last_temp,
\* current_scenario, scenario_start_time and scenario_duration as it found
\* them.
C24_UnknownLocation ==
  (/\ \/ HasAnswered(1, "api_current_temperature")
      \/ HasAnswered(1, "ajax_temperature_update")
   /\ op[1].location_id \notin DOMAIN storage_locations) =>
     /\ ret[1].status >= 400
     /\ temperature_simulator = op[1].found

\* C25: every reading and every point of a history is safe when its
\* temperature is from 2.0 to 8.0, warning when it is from 1.0 up to 2.0 or
\* above 8.0 up to 9.0, and unsafe otherwise; and in every system summary
\* the three counts add up to total_locations and active_alerts is
\* warning_count + unsafe_count.
Classified(r) ==
  /\ r.status \in {"safe", "warning", "unsafe"}
  /\ r.status = "safe" <=>
       (2 * Scale <= r.temperature /\ r.temperature <= 8 * Scale)
  /\ r.status = "warning" <=>
       \/ 1 * Scale <= r.temperature /\ r.temperature < 2 * Scale
       \/ 8 * Scale < r.temperature /\ r.temperature <= 9 * Scale

Counted(s) ==
  /\ s.safe_count + s.warning_count + s.unsafe_count = s.total_locations
  /\ s.active_alerts = s.warning_count + s.unsafe_count

ReadingAnswered ==
  /\ \/ HasAnswered(1, "ajax_temperature_update")
     \/ HasAnswered(1, "api_current_temperature")
     \/ HasAnswered(1, "simulate_scenario")
  /\ ret[1].status = 200

C25_StatusAndCounts ==
  /\ ReadingAnswered => Classified(ret[1].current_reading)
  /\ HasAnswered(1, "ajax_historical_data") =>
       \A i \in 1..Len(ret[1].data) : Classified(ret[1].data[i])
  /\ op[1].method = "get_system_summary" =>
       \A i \in 1..Len(frame[1].all_locations) :
         Classified(frame[1].all_locations[i])
  /\ HasAnswered(1, "get_system_summary") =>
       /\ Counted(ret[1].system_summary)
       /\ ret[1].system_summary.total_locations = Len(location_keys)

\* A summary of one reading of 1.0 degrees, a warning, and one unsafe reading.
C25_Witness ==
  /\ HasAnswered(1, "get_system_summary")
  /\ ret[1].system_summary.warning_count = 1
  /\ ret[1].system_summary.unsafe_count = 1
  /\ frame[1].all_locations[1].temperature = Scale
  /\ frame[1].all_locations[1].status = "warning"

\* C26: no two rows of the table have batch numbers that are equal when
\* case is ignored, so a lookup by batch_number__iexact matches at most one
\* batch, whatever creations, updates and deletions have run, two at a time.
C26_UniqueIgnoringCase ==
  /\ \A a \in objects : \A b \in objects :
       a.id # b.id => ~iexact(a.batch_number, b.batch_number)
  /\ \A number \in BatchNumbers : Cardinality(matching(objects, number)) <= 1

\* Two creations with the same batch number, one in lower case, have both
\* passed validation; the first is stored and the save of the second failed.
C26_Witness ==
  /\ HasAnswered(1, "add_batch")
  /\ HasAnswered(2, "api_create")
  /\ iexact(op[1].batch_number, op[2].batch_number)
  /\ op[1].batch_number # op[2].batch_number
  /\ ret[1].status = 302
  /\ ret[2].status = 500
  /\ matching(objects, op[2].batch_number) # {}

\* C27: the QR code of every stored batch that has one encodes the current
\* qr_data of the batch, batch_number|name|expiry_date.
C27_QRCodeIsCurrent ==
  \A batch \in objects :
    batch.qr_code # NoQR => batch.qr_code.text = qr_data(batch)

\* C28: verify_qr_api, given the qr_data of a stored batch, answers that it
\* is valid, with the batch number, the name and the expiry date of that
\* batch as the parsed data, and with that batch.
C28_QRRoundTrip ==
  \A batch \in objects :
    (HasAnswered(1, "verify_qr_api") /\ op[1].qr_data = qr_data(batch)) =>
      /\ ret[1].status = 200
      /\ ret[1].valid
      /\ ret[1].parsed_qr_data.batch_number = batch.batch_number
      /\ ret[1].parsed_qr_data.drug_name = batch.name
      /\ ret[1].parsed_qr_data.expiry_date = isoformat(batch.expiry_date)
      /\ ret[1].batch.id = batch.id

\* C29: in every serialized batch expiry_status is "Expired" exactly when
\* is_expired is true, and days_to_expiry is 0 exactly when is_expired is
\* true.
C29_ExpiredAgrees ==
  (HasAnswered(1, "api_retrieve") /\ ret[1].status = 200) =>
    /\ ret[1].batch.expiry_status = "Expired" <=> ret[1].batch.is_expired
    /\ ret[1].batch.days_to_expiry = 0 <=> ret[1].batch.is_expired

\* C30: the four counts of by_expiry_status in an inventory_stats_api
\* response add up to total_batches, and each is the number of batches
\* whose expiry_status property has that value on the day of the response.
WithStatus(status) ==
  Cardinality({batch \in objects : expiry_status(batch, today) = status})

C30_StatsStep ==
  (op'[1].method = "inventory_stats_api" /\ today' = today /\ objects' = objects) =>
    /\ ret'[1].by_expiry_status.good + ret'[1].by_expiry_status.warning
         + ret'[1].by_expiry_status.expiring_soon
         + ret'[1].by_expiry_status.expired = ret'[1].total_batches
    /\ ret'[1].total_batches = Cardinality(objects)
    /\ ret'[1].by_expiry_status.good = WithStatus("Good")
    /\ ret'[1].by_expiry_status.warning = WithStatus("Warning")
    /\ ret'[1].by_expiry_status.expiring_soon = WithStatus("Expiring Soon")
    /\ ret'[1].by_expiry_status.expired = WithStatus("Expired")

C30_StatsPartition == [][C30_StatsStep]_vars

====
